---- MODULE Spec2Model ----
(***************************************************************************)
(* PositionManager (contracts/src/PositionManager.sol): the lifecycle of   *)
(* one Uniswap-V3 liquidity position held by an owner-controlled contract. *)
(*                                                                         *)
(* Every external function of the contract is an operator from a world     *)
(* (storage, token balances, the venue's positions) and the caller to a    *)
(* Result: a call either returns with the new world or reverts and leaves  *)
(* the world it was given (EVM atomicity; a revert in a nested external    *)
(* call bubbles up, the contract uses no try/catch).  One action per       *)
(* external function runs it as a transaction.                             *)
(***************************************************************************)
EXTENDS Integers, Sequences, FiniteSets, TLC

\* ------------------------------------------------------------------ bounds
MaxAmount == 1      \* token units the owner starts with, per token
MaxTokenId == 2     \* position NFTs the venue mints in one behaviour
MaxFee == 1         \* fee units trading pays to the positions in one behaviour
MaxEth == 1         \* wei the contract receives through receive()

\* ---------------------------------------------------------------- addresses
Owner == "owner"        \* Ownable(msg.sender): the deployer
Self == "manager"       \* _self = address(this)
Other == "other"        \* any address that is not the owner
Venue == "venue"        \* NonfungiblePositionManager and its pool
Callers == {Owner, Other}
Accounts == {Self, Owner, Other, Venue}

\* ------------------------------------------------------------------ errors
ErrUnauthorized == "OwnableUnauthorizedAccount"
ErrReentrant == "ReentrancyGuardReentrantCall"
ErrNoPosition == "No active position"
ErrNoFees == "No fees to compound"
ErrNoTokens == "No tokens in contract"
ErrStale == "Chainlink price too stale"
ErrBadPrice == "Invalid Chainlink price"
ErrRange == "Invalid range"
ErrNoAssets == "No assets to withdraw"
ErrEthTransfer == "ETH transfer failed"
ErrVenue == "VenueError"
ErrBalance == "ERC20InsufficientBalance"

VARIABLES
    currentTokenId,   \* uint256 currentTokenId; 0 = no position
    rangePercent,     \* int24 rangePercent
    entered,          \* ReentrancyGuard status: TRUE while a guarded call runs
    wbtc,             \* WBTC balance of every account (token0)
    usdc,             \* USDC balance of every account (token1)
    eth,              \* ETH balance of every account
    positions,        \* the venue's positions owned by the contract, by id
    nextTokenId,      \* the id the venue gives the next minted position
    last,             \* the latest transaction: call, caller, outcome, trace
    prev,             \* the transaction before the latest: how it ended when
                      \* it was the same call by the same caller, "created"
                      \* when it was a createPosition that returned, else "other"
    service           \* the off-chain monitoring process: its configuration
                      \* and the fields of its PositionService object

vars == <<currentTokenId, rangePercent, entered, wbtc, usdc, eth, positions,
          nextTokenId, last, prev, service>>

Min(a, b) == IF a <= b THEN a ELSE b

\* ---------------------------------------------------------- program constants
tickSpacing == 60                    \* int24 tickSpacing = 60
PRICE_STALENESS_THRESHOLD == 3600    \* 1 hour in seconds
TicksPer15Percent == 1398            \* log(1.15) / log(1.0001)
MinInt24 == -8388608
MaxInt24 == 8388607

\* ------------------------------------------------------------ world, results
NoPosition ==
    [exists |-> FALSE, liquidity |-> 0, tickLower |-> 0, tickUpper |-> 0,
     amount0 |-> 0, amount1 |-> 0, tokensOwed0 |-> 0, tokensOwed1 |-> 0]

NoNested == [fn |-> "none", ok |-> FALSE, err |-> ""]

\* The world a transaction starts from: the state, with an empty trace.
World ==
    [currentTokenId |-> currentTokenId, rangePercent |-> rangePercent,
     entered |-> entered, wbtc |-> wbtc, usdc |-> usdc, eth |-> eth,
     positions |-> positions, nextTokenId |-> nextTokenId,
     events |-> <<>>, calls |-> <<>>, nested |-> NoNested]

NoRet == [tokenId |-> 0, liquidity |-> 0, amount0 |-> 0, amount1 |-> 0,
          amount2 |-> 0, amount3 |-> 0]

Ret4(tokenId, liquidity, amount0, amount1) ==
    [tokenId |-> tokenId, liquidity |-> liquidity, amount0 |-> amount0,
     amount1 |-> amount1, amount2 |-> 0, amount3 |-> 0]

Return(w, ret) == [ok |-> TRUE, err |-> "", w |-> w, ret |-> ret]

\* revert: every effect of the call is undone, only the reason gets out
Revert(w, reason) == [ok |-> FALSE, err |-> reason, w |-> w, ret |-> NoRet]

emit(w, event) == [w EXCEPT !.events = Append(@, event)]

\* ------------------------------------------------------------------- tokens
\* IERC20.transfer / transferFrom: moves amount, reverts on a short balance
transfer(bal, from, to, amount) ==
    IF from = to THEN bal
    ELSE [bal EXCEPT ![from] = @ - amount, ![to] = @ + amount]

\* ---------------------------------------------------- venue (external calls)
\* One entry of the transaction's venue trace: the call, its position, the
\* recipient, two amounts, and currentTokenId as it stood when the call ran.
Call(w, name, tokenId, recipient, x, y) ==
    [w EXCEPT !.calls = Append(@, [name |-> name, tokenId |-> tokenId,
        recipient |-> recipient, x |-> x, y |-> y, held |-> w.currentTokenId])]

PositionExists(w, tokenId) ==
    tokenId \in DOMAIN w.positions /\ w.positions[tokenId].exists

\* positionManager.mint: takes at most the desired amounts from the caller
\* (the contract), as the pool's price dictates (env.use0, env.use1), and
\* issues the next id; reverts on an invalid range or when no liquidity results.
mint(w, amount0Desired, amount1Desired, tickLower, tickUpper, env) ==
    LET amount0 == Min(env.use0, amount0Desired)
        amount1 == Min(env.use1, amount1Desired)
        liquidity == amount0 + amount1
        tokenId == w.nextTokenId
        w1 == Call(w, "mint", tokenId, Self, amount0Desired, amount1Desired)
    IN  IF \/ ~env.mintOk
           \/ tickLower >= tickUpper
           \/ tickLower % tickSpacing # 0 \/ tickUpper % tickSpacing # 0
           \/ liquidity = 0
        THEN Revert(w, ErrVenue)
        ELSE IF w.wbtc[Self] < amount0 \/ w.usdc[Self] < amount1
        THEN Revert(w, ErrBalance)
        ELSE Return(
            [w1 EXCEPT !.wbtc = transfer(@, Self, Venue, amount0),
                       !.usdc = transfer(@, Self, Venue, amount1),
                       !.nextTokenId = @ + 1,
                       !.positions[tokenId] =
                           [exists |-> TRUE, liquidity |-> liquidity,
                            tickLower |-> tickLower, tickUpper |-> tickUpper,
                            amount0 |-> amount0, amount1 |-> amount1,
                            tokensOwed0 |-> 0, tokensOwed1 |-> 0]],
            Ret4(tokenId, liquidity, amount0, amount1))

\* positionManager.decreaseLiquidity: the share of the principal that the
\* removed liquidity stands for becomes owed to the position's owner.
decreaseLiquidity(w, tokenId, liquidity) ==
    IF ~PositionExists(w, tokenId) THEN Revert(w, ErrVenue)
    ELSE LET p == w.positions[tokenId] IN
        IF liquidity <= 0 \/ liquidity > p.liquidity THEN Revert(w, ErrVenue)
        ELSE LET out0 == (p.amount0 * liquidity) \div p.liquidity
                 out1 == (p.amount1 * liquidity) \div p.liquidity
                 w1 == Call(w, "decreaseLiquidity", tokenId, Self, liquidity, 0)
             IN Return(
                 [w1 EXCEPT !.positions[tokenId] =
                     [p EXCEPT !.liquidity = @ - liquidity,
                               !.amount0 = @ - out0, !.amount1 = @ - out1,
                               !.tokensOwed0 = @ + out0,
                               !.tokensOwed1 = @ + out1]],
                 Ret4(tokenId, 0, out0, out1))

\* positionManager.collect with amountMax = type(uint128).max: pays everything
\* owed on the position to the recipient.
collect(w, tokenId, recipient) ==
    IF ~PositionExists(w, tokenId) THEN Revert(w, ErrVenue)
    ELSE LET p == w.positions[tokenId]
             w1 == Call(w, "collect", tokenId, recipient,
                        p.tokensOwed0, p.tokensOwed1)
         IN Return(
             [w1 EXCEPT !.wbtc = transfer(@, Venue, recipient, p.tokensOwed0),
                        !.usdc = transfer(@, Venue, recipient, p.tokensOwed1),
                        !.positions[tokenId] =
                            [p EXCEPT !.tokensOwed0 = 0, !.tokensOwed1 = 0]],
             Ret4(tokenId, 0, p.tokensOwed0, p.tokensOwed1))

\* positionManager.burn: deletes a position; the venue refuses one that still
\* has liquidity or owed tokens.
burn(w, tokenId) ==
    IF ~PositionExists(w, tokenId) THEN Revert(w, ErrVenue)
    ELSE LET p == w.positions[tokenId]
             w1 == Call(w, "burn", tokenId, Self, p.liquidity,
                        p.tokensOwed0 + p.tokensOwed1)
         IN IF p.liquidity # 0 \/ p.tokensOwed0 # 0 \/ p.tokensOwed1 # 0
            THEN Revert(w, ErrVenue)
            ELSE Return([w1 EXCEPT !.positions[tokenId] = NoPosition], NoRet)

\* getPositionInfo: positionManager.positions(tokenId), of a position the
\* venue knows (positions() reverts for any other id)
getPositionInfo(w, tokenId) == w.positions[tokenId]

\* ----------------------------------------------------------------- modifiers
\* an access check that admits every caller
anyCaller(sender) == TRUE

\* Ownable.onlyOwner
onlyOwner(sender) == sender = Owner

\* ReentrancyGuard.nonReentrant: refuses when a guarded call is already running
nonReentrant(w) == ~w.entered

Enter(w) == [w EXCEPT !.entered = TRUE]
Leave(w) == [w EXCEPT !.entered = FALSE]

Event(name, tokenId, x, y, z) ==
    [name |-> name, tokenId |-> tokenId, x |-> x, y |-> y, z |-> z]

\* Solidity's signed division truncates toward zero.
SDiv(a, b) == IF a >= 0 THEN a \div b ELSE -((-a) \div b)

InInt24(x) == MinInt24 <= x /\ x <= MaxInt24

\* ------------------------------------------------------- the contract's calls
\* a price check that does not look at the quote's age
getPriceAnyAge(env) ==
    IF ~(env.answer > 0)
    THEN [ok |-> FALSE, err |-> ErrBadPrice, price |-> 0]
    ELSE [ok |-> TRUE, err |-> "", price |-> env.answer \div 100]

\* a price check that does not look at the quote's value
getPriceAnyValue(env) ==
    IF ~(env.age <= PRICE_STALENESS_THRESHOLD)
    THEN [ok |-> FALSE, err |-> ErrStale, price |-> 0]
    ELSE [ok |-> TRUE, err |-> "", price |-> env.answer \div 100]

\* _getValidatedWBTCPrice: priceFeed.latestRoundData() answered env.answer,
\* env.age seconds ago (block.timestamp - updatedAt).
getValidatedWBTCPrice(env) ==
    IF ~(env.age <= PRICE_STALENESS_THRESHOLD)
    THEN [ok |-> FALSE, err |-> ErrStale, price |-> 0]
    ELSE IF ~(env.answer > 0)
    THEN [ok |-> FALSE, err |-> ErrBadPrice, price |-> 0]
    ELSE [ok |-> TRUE, err |-> "", price |-> env.answer \div 100]

\* a range computation that divides before it multiplies
calculateTickRangeDivideFirst(percent, currentTick) ==
    LET tickRange == SDiv(percent, 15) * TicksPer15Percent
    IN  [ok |-> TRUE,
         tickLower |-> SDiv(currentTick - tickRange, tickSpacing) * tickSpacing,
         tickUpper |-> SDiv(currentTick + tickRange, tickSpacing) * tickSpacing]

\* calculateTickRange(currentTick), reading rangePercent; checked int24
\* arithmetic reverts on overflow.
calculateTickRange(percent, currentTick) ==
    LET product == percent * TicksPer15Percent
        tickRange == SDiv(product, 15)
        lower == SDiv(currentTick - tickRange, tickSpacing) * tickSpacing
        upper == SDiv(currentTick + tickRange, tickSpacing) * tickSpacing
    IN  [ok |-> /\ InInt24(product)
                /\ InInt24(currentTick - tickRange)
                /\ InInt24(currentTick + tickRange),
         tickLower |-> lower, tickUpper |-> upper]

\* The({F(r) : r \in {call}}) reads "let r be the result of call in F(r)":
\* the call is evaluated once and r stands for its value.
The(S) == CHOOSE x \in S : TRUE

\* a mint tail that sends what the venue left in the contract to the owner
MintedRefunding(w, m) ==
    Return(Leave(emit([m.w EXCEPT
                          !.currentTokenId = m.ret.tokenId,
                          !.wbtc = transfer(@, Self, Owner, m.w.wbtc[Self]),
                          !.usdc = transfer(@, Self, Owner, m.w.usdc[Self])],
                      Event("PositionCreated", m.ret.tokenId, m.ret.liquidity,
                            m.ret.amount0, m.ret.amount1))),
           m.ret)

\* the tail shared by the three minting functions: store the id, emit
Minted(w, m) ==
    Return(Leave(emit([m.w EXCEPT !.currentTokenId = m.ret.tokenId],
                      Event("PositionCreated", m.ret.tokenId, m.ret.liquidity,
                            m.ret.amount0, m.ret.amount1))),
           m.ret)

\* createPosition(amount0Desired, amount1Desired, tickLower, tickUpper)
\*     external onlyOwner nonReentrant
createPosition(w, sender, amount0Desired, amount1Desired, tickLower, tickUpper, env) ==
    IF ~onlyOwner(sender) THEN Revert(w, ErrUnauthorized)
    ELSE IF ~nonReentrant(w) THEN Revert(w, ErrReentrant)
    ELSE IF w.wbtc[sender] < amount0Desired \/ w.usdc[sender] < amount1Desired
    THEN Revert(w, ErrBalance)
    ELSE The({ IF ~m.ok THEN Revert(w, m.err) ELSE Minted(w, m) :
               m \in {mint([Enter(w) EXCEPT
                               !.wbtc = transfer(@, sender, Self, amount0Desired),
                               !.usdc = transfer(@, sender, Self, amount1Desired)],
                           amount0Desired, amount1Desired, tickLower,
                           tickUpper, env)} })

\* an addLiquidityFromContract without the balance require: it goes to the
\* venue with whatever the contract holds
addLiquidityFromContractNoRequire(w, sender, env) ==
    IF ~onlyOwner(sender) THEN Revert(w, ErrUnauthorized)
    ELSE IF ~nonReentrant(w) THEN Revert(w, ErrReentrant)
    ELSE The({ IF ~m.ok THEN Revert(w, m.err) ELSE Minted(w, m) :
               m \in {mint(Enter(w), w.wbtc[Self], w.usdc[Self],
                           calculateTickRange(w.rangePercent, env.tick).tickLower,
                           calculateTickRange(w.rangePercent, env.tick).tickUpper,
                           env)} })

\* addLiquidityFromContract() external onlyOwner nonReentrant
addLiquidityFromContract(w, sender, env) ==
    IF ~onlyOwner(sender) THEN Revert(w, ErrUnauthorized)
    ELSE IF ~nonReentrant(w) THEN Revert(w, ErrReentrant)
    ELSE LET t == calculateTickRange(w.rangePercent, env.tick)
             wbtcBalance == w.wbtc[Self]
             usdcBalance == w.usdc[Self]
         IN IF ~t.ok THEN Revert(w, "Panic")
            ELSE IF ~(wbtcBalance > 0 \/ usdcBalance > 0)
            THEN Revert(w, ErrNoTokens)
            ELSE The({ IF ~m.ok THEN Revert(w, m.err) ELSE Minted(w, m) :
                       m \in {mint(Enter(w), wbtcBalance, usdcBalance,
                                   t.tickLower, t.tickUpper, env)} })

\* a prioritized add that offers only the asset of the greater USD value
addLiquidityPrioritizedOnlyGreater(w, sender, wbtcPrice, tickLower, tickUpper, env) ==
    IF ~onlyOwner(sender) THEN Revert(w, ErrUnauthorized)
    ELSE IF ~nonReentrant(w) THEN Revert(w, ErrReentrant)
    ELSE IF ~(w.wbtc[Self] > 0 \/ w.usdc[Self] > 0)
    THEN Revert(w, ErrNoTokens)
    ELSE The({ IF ~m.ok THEN Revert(w, m.err) ELSE Minted(w, m) :
               m \in {IF (w.wbtc[Self] * wbtcPrice) \div 100000000
                            >= w.usdc[Self]
                       THEN mint(Enter(w), w.wbtc[Self], 0, tickLower,
                                 tickUpper, env)
                       ELSE mint(Enter(w), 0, w.usdc[Self], tickLower,
                                 tickUpper, env)} })

\* addLiquidityFromContractPrioritized(wbtcPrice, tickLower, tickUpper)
\*     external onlyOwner nonReentrant
addLiquidityFromContractPrioritized(w, sender, wbtcPrice, tickLower, tickUpper, env) ==
    IF ~onlyOwner(sender) THEN Revert(w, ErrUnauthorized)
    ELSE IF ~nonReentrant(w) THEN Revert(w, ErrReentrant)
    ELSE LET wbtcBalance == w.wbtc[Self]
             usdcBalance == w.usdc[Self]
             wbtcValueUSD == (wbtcBalance * wbtcPrice) \div 100000000
             usdcValueUSD == usdcBalance
             amount0Desired ==
                 IF wbtcValueUSD >= usdcValueUSD THEN wbtcBalance
                 ELSE (IF wbtcBalance > 0 THEN wbtcBalance ELSE 0)
             amount1Desired ==
                 IF wbtcValueUSD >= usdcValueUSD
                 THEN (IF usdcBalance > 0 THEN usdcBalance ELSE 0)
                 ELSE usdcBalance
         IN IF ~(wbtcBalance > 0 \/ usdcBalance > 0)
            THEN Revert(w, ErrNoTokens)
            ELSE The({ IF ~m.ok THEN Revert(w, m.err) ELSE Minted(w, m) :
                       m \in {mint(Enter(w), amount0Desired, amount1Desired,
                                   tickLower, tickUpper, env)} })

\* a collectFees that names another account as the recipient
feeRecipientOther == Other

\* collectFees: the recipient of its collect (recipient: owner())
feeRecipient == Owner

\* a collectFees that insists on fees to collect
collectFeesRequiringFees(w, sender, tokenId) ==
    IF ~onlyOwner(sender) THEN Revert(w, ErrUnauthorized)
    ELSE The({ IF ~c.ok THEN Revert(w, c.err)
               ELSE IF ~(c.ret.amount0 > 0 \/ c.ret.amount1 > 0)
               THEN Revert(w, ErrNoFees)
               ELSE Return(emit(c.w, Event("FeesCollected", tokenId,
                                           c.ret.amount0, c.ret.amount1, 0)),
                           c.ret) :
               c \in {collect(w, tokenId, feeRecipient)} })

\* collectFees(tokenId) public onlyOwner  -- no nonReentrant
collectFees(w, sender, tokenId) ==
    IF ~onlyOwner(sender) THEN Revert(w, ErrUnauthorized)
    ELSE The({ IF ~c.ok THEN Revert(w, c.err)
               ELSE Return(emit(c.w, Event("FeesCollected", tokenId,
                                           c.ret.amount0, c.ret.amount1, 0)),
                           c.ret) :
               c \in {collect(w, tokenId, feeRecipient)} })

\* a collectFeesAndWithdraw that withdraws the WBTC only
collectFeesAndWithdrawWbtcOnly(w, sender) ==
    IF ~onlyOwner(sender) THEN Revert(w, ErrUnauthorized)
    ELSE IF ~nonReentrant(w) THEN Revert(w, ErrReentrant)
    ELSE The({
        IF ~f.ok THEN Revert(w, f.err)
        ELSE LET withdrawnAmount0 == f.w.wbtc[Self]
                 w1 == [f.w EXCEPT
                     !.wbtc = transfer(@, Self, Owner, withdrawnAmount0)]
                 w2 == emit(w1, Event("FeesCollected", w.currentTokenId,
                                      f.ret.amount0, f.ret.amount1, 0))
                 w3 == emit(w2, Event("EmergencyWithdrawal", 1,
                                      withdrawnAmount0, 0, 0))
             IN Return(Leave(w3),
                       [tokenId |-> 0, liquidity |-> 0,
                        amount0 |-> f.ret.amount0, amount1 |-> f.ret.amount1,
                        amount2 |-> withdrawnAmount0, amount3 |-> 0]) :
        f \in {IF w.currentTokenId # 0
               THEN collectFees(Enter(w), sender, w.currentTokenId)
               ELSE Return(Enter(w), NoRet)} })

\* collectFeesAndWithdraw() external onlyOwner nonReentrant
\* (collectFees is entered as an internal call: same msg.sender)
collectFeesAndWithdraw(w, sender) ==
    IF ~onlyOwner(sender) THEN Revert(w, ErrUnauthorized)
    ELSE IF ~nonReentrant(w) THEN Revert(w, ErrReentrant)
    ELSE The({
        IF ~f.ok THEN Revert(w, f.err)
        ELSE LET withdrawnAmount0 == f.w.wbtc[Self]
                 withdrawnAmount1 == f.w.usdc[Self]
                 w1 == [f.w EXCEPT
                     !.wbtc = transfer(@, Self, Owner, withdrawnAmount0),
                     !.usdc = transfer(@, Self, Owner, withdrawnAmount1)]
                 w2 == emit(w1, Event("FeesCollected", w.currentTokenId,
                                      f.ret.amount0, f.ret.amount1, 0))
                 w3 == emit(w2, Event("EmergencyWithdrawal", 1,
                                      withdrawnAmount0, 0, 0))
                 w4 == emit(w3, Event("EmergencyWithdrawal", 2,
                                      withdrawnAmount1, 0, 0))
             IN Return(Leave(w4),
                       [tokenId |-> 0, liquidity |-> 0,
                        amount0 |-> f.ret.amount0, amount1 |-> f.ret.amount1,
                        amount2 |-> withdrawnAmount0,
                        amount3 |-> withdrawnAmount1]) :
        f \in {IF w.currentTokenId # 0
               THEN collectFees(Enter(w), sender, w.currentTokenId)
               ELSE Return(Enter(w), NoRet)} })

\* a manager that takes a position for granted: the require is gone
positionAssumed(w) == TRUE

\* require(currentTokenId != 0, "No active position")
hasActivePosition(w) == w.currentTokenId # 0

\* a close that pays the freed tokens out to the owner
closeToOwner == Owner

\* closePosition: the recipient of its collect (recipient: _self)
closeRecipient == Self

\* a close that skips decreaseLiquidity: collect, then burn
closeStepsNoDecrease(w, tokenId, liquidity) ==
    The({ IF ~c.ok THEN c ELSE
          The({ IF ~b.ok THEN b
                ELSE Return(emit([b.w EXCEPT !.currentTokenId = 0],
                                 Event("PositionClosed", tokenId,
                                       c.ret.amount0, c.ret.amount1, 0)),
                            Ret4(0, 0, c.ret.amount0, c.ret.amount1)) :
                b \in {burn(c.w, tokenId)} }) :
          c \in {collect(w, tokenId, closeRecipient)} })

\* closePosition: decreaseLiquidity, then collect, then burn, then
\* currentTokenId = 0 and the event
closeSteps(w, tokenId, liquidity) ==
    The({ IF ~d.ok THEN d ELSE
          The({ IF ~c.ok THEN c ELSE
                The({ IF ~b.ok THEN b
                      ELSE Return(emit([b.w EXCEPT !.currentTokenId = 0],
                                       Event("PositionClosed", tokenId,
                                             c.ret.amount0, c.ret.amount1, 0)),
                                  Ret4(0, 0, c.ret.amount0, c.ret.amount1)) :
                      b \in {burn(c.w, tokenId)} }) :
                c \in {collect(d.w, tokenId, closeRecipient)} }) :
          d \in {decreaseLiquidity(w, tokenId, liquidity)} })

\* closePosition() external onlyOwner nonReentrant
closePosition(w, sender) ==
    IF ~onlyOwner(sender) THEN Revert(w, ErrUnauthorized)
    ELSE IF ~nonReentrant(w) THEN Revert(w, ErrReentrant)
    ELSE IF ~hasActivePosition(w) THEN Revert(w, ErrNoPosition)
    ELSE IF ~PositionExists(w, w.currentTokenId) THEN Revert(w, ErrVenue)
    ELSE The({ IF ~r.ok THEN Revert(w, r.err) ELSE Return(Leave(r.w), r.ret) :
               r \in {closeSteps(Enter(w), w.currentTokenId,
                                 getPositionInfo(w, w.currentTokenId).liquidity)} })

\* A rebalance() that is not one transaction: the owner's closePosition is
\* committed before createPosition is tried, and stays when the create fails.
rebalanceCloseCommitted(w, sender, env) ==
    IF ~onlyOwner(sender) THEN Revert(w, ErrUnauthorized)
    ELSE IF ~hasActivePosition(w) THEN Revert(w, ErrNoPosition)
    ELSE The({ IF ~c.ok THEN Revert(w, c.err)
               ELSE The({ IF ~n.ok THEN Revert(c.w, n.err) ELSE n :
                          n \in {createPosition(
                                    c.w, sender, c.ret.amount0, c.ret.amount1,
                                    calculateTickRange(c.w.rangePercent,
                                                       env.tick).tickLower,
                                    calculateTickRange(c.w.rangePercent,
                                                       env.tick).tickUpper,
                                    env)} }) :
               c \in {closePosition(w, sender)} })

\* rebalance: who this.closePosition() and this.createPosition() see as
\* msg.sender (an external call of the contract to itself)
rebalanceSender == Self

\* rebalance() external onlyOwner nonReentrant
rebalance(w, sender, env) ==
    IF ~onlyOwner(sender) THEN Revert(w, ErrUnauthorized)
    ELSE IF ~nonReentrant(w) THEN Revert(w, ErrReentrant)
    ELSE IF ~hasActivePosition(w) THEN Revert(w, ErrNoPosition)
    ELSE The({
        IF ~c.ok THEN Revert(w, c.err)
        ELSE LET t == calculateTickRange(c.w.rangePercent, env.tick)
             IN IF ~t.ok THEN Revert(w, "Panic")
                ELSE The({
                    IF ~n.ok THEN Revert(w, n.err)
                    ELSE Return(Leave(emit(n.w, Event("PositionRebalanced",
                                    w.currentTokenId, n.ret.tokenId, 0, 0))),
                                Ret4(n.ret.tokenId, 0, 0, 0)) :
                    n \in {createPosition(c.w, rebalanceSender, c.ret.amount0,
                                          c.ret.amount1, t.tickLower,
                                          t.tickUpper, env)} }) :
        c \in {closePosition(Enter(w), rebalanceSender)} })

\* an updateRange that announces the new range but does not store it
updateRangeNotStored(w, sender, newRangePercent) ==
    IF ~onlyOwner(sender) THEN Revert(w, ErrUnauthorized)
    ELSE IF ~(newRangePercent > 0 /\ newRangePercent <= 100)
    THEN Revert(w, ErrRange)
    ELSE Return(emit(w, Event("RangeUpdated", 0, newRangePercent, 0, 0)),
                NoRet)

\* an updateRange that stores whatever it is given
updateRangeUnchecked(w, sender, newRangePercent) ==
    IF ~onlyOwner(sender) THEN Revert(w, ErrUnauthorized)
    ELSE Return(emit([w EXCEPT !.rangePercent = newRangePercent],
                     Event("RangeUpdated", 0, newRangePercent, 0, 0)),
                NoRet)

\* updateRange(newRangePercent) external onlyOwner  -- no nonReentrant
updateRange(w, sender, newRangePercent) ==
    IF ~onlyOwner(sender) THEN Revert(w, ErrUnauthorized)
    ELSE IF ~(newRangePercent > 0 /\ newRangePercent <= 100)
    THEN Revert(w, ErrRange)
    ELSE Return(emit([w EXCEPT !.rangePercent = newRangePercent],
                     Event("RangeUpdated", 0, newRangePercent, 0, 0)),
                NoRet)

\* compound: who this.addLiquidityFromContractPrioritized() sees as msg.sender
compoundSender == Self

\* a compound that takes fees for granted: the require is gone
feesAssumed(feesCollected0, feesCollected1) == TRUE

\* compound: require(feesCollected0 > 0 || feesCollected1 > 0)
hasFees(feesCollected0, feesCollected1) ==
    feesCollected0 > 0 \/ feesCollected1 > 0

\* compound() external nonReentrant  -- no onlyOwner
compound(w, sender, env) ==
    IF ~nonReentrant(w) THEN Revert(w, ErrReentrant)
    ELSE IF ~hasActivePosition(w) THEN Revert(w, ErrNoPosition)
    ELSE The({
        IF ~c.ok THEN Revert(w, c.err)
        ELSE IF ~hasFees(c.ret.amount0, c.ret.amount1)
        THEN Revert(w, ErrNoFees)
        ELSE LET w1 == emit(c.w, Event("FeesCollected", w.currentTokenId,
                                       c.ret.amount0, c.ret.amount1, 0))
                 p == getValidatedWBTCPrice(env)
                 t == calculateTickRange(w1.rangePercent, env.tick)
             IN IF ~p.ok THEN Revert(w, p.err)
                ELSE IF ~t.ok THEN Revert(w, "Panic")
                ELSE The({
                    IF ~a.ok THEN Revert(w, a.err)
                    ELSE Return(Leave(emit(a.w, Event("FeesCompounded",
                                    a.ret.tokenId, a.ret.amount0,
                                    a.ret.amount1, 0))),
                                a.ret) :
                    a \in {addLiquidityFromContractPrioritized(
                               w1, compoundSender, p.price, t.tickLower,
                               t.tickUpper, env)} }) :
        c \in {collect(Enter(w), w.currentTokenId, Self)} })

\* What the owner's receive() does with the ETH that emergencyWithdraw sends
\* it (owner().call{value: ethAmount}("")): nothing, refuse it, or call back
\* into the contract as the owner; a call back that reverts is caught there.
ownerReceive(w, env) ==
    IF env.hook \in {"none", "reject"}
    THEN [success |-> env.hook # "reject", w |-> w]
    ELSE The({ [success |-> TRUE,
                w |-> [r.w EXCEPT !.nested =
                          [fn |-> env.hook, ok |-> r.ok, err |-> r.err]]] :
               r \in {CASE env.hook = "updateRange" ->
                               updateRange(w, Owner, env.hookArg)
                        [] env.hook = "collectFees" ->
                               collectFees(w, Owner, env.hookArg)
                        [] env.hook = "closePosition" -> closePosition(w, Owner)
                        [] env.hook = "rebalance" -> rebalance(w, Owner, env)} })

\* a sweep without the final require: it returns zeros when nothing is held
sweepTokensNoRequire(w, ethAmount) ==
    LET amount0 == w.wbtc[Self]
        amount1 == w.usdc[Self]
    IN  Return(Leave([w EXCEPT !.wbtc = transfer(@, Self, Owner, amount0),
                               !.usdc = transfer(@, Self, Owner, amount1)]),
               [tokenId |-> 0, liquidity |-> 0, amount0 |-> amount0,
                amount1 |-> amount1, amount2 |-> ethAmount, amount3 |-> 0])

\* emergencyWithdraw: sweep what is left of both tokens after the ETH
sweepTokens(w, ethAmount) ==
    LET amount0 == w.wbtc[Self]
        w2 == IF amount0 > 0
              THEN emit([w EXCEPT !.wbtc = transfer(@, Self, Owner, amount0)],
                        Event("EmergencyWithdrawal", 1, amount0, 0, 0))
              ELSE w
        amount1 == w.usdc[Self]
        w3 == IF amount1 > 0
              THEN emit([w2 EXCEPT !.usdc = transfer(@, Self, Owner, amount1)],
                        Event("EmergencyWithdrawal", 2, amount1, 0, 0))
              ELSE w2
    IN  IF ~(ethAmount > 0 \/ amount0 > 0 \/ amount1 > 0)
        THEN Revert(w, ErrNoAssets)
        ELSE Return(Leave(w3),
                    [tokenId |-> 0, liquidity |-> 0, amount0 |-> amount0,
                     amount1 |-> amount1, amount2 |-> ethAmount, amount3 |-> 0])

\* emergencyWithdraw() external onlyOwner nonReentrant
emergencyWithdraw(w, sender, env) ==
    IF ~onlyOwner(sender) THEN Revert(w, ErrUnauthorized)
    ELSE IF ~nonReentrant(w) THEN Revert(w, ErrReentrant)
    ELSE IF w.eth[Self] > 0
    THEN The({
        IF ~sent.success THEN Revert(w, ErrEthTransfer)
        ELSE The({ IF ~r.ok THEN Revert(w, r.err) ELSE r :
                   r \in {sweepTokens(
                              emit(sent.w, Event("EmergencyWithdrawal", 0,
                                                 w.eth[Self], 0, 0)),
                              w.eth[Self])} }) :
        sent \in {ownerReceive(
                     [Enter(w) EXCEPT
                         !.eth = transfer(@, Self, Owner, w.eth[Self])],
                     env)} })
    ELSE The({ IF ~r.ok THEN Revert(w, r.err) ELSE r :
               r \in {sweepTokens(Enter(w), 0)} })

\* ------------------------------------------------ the environment of a call
\* What the world outside answers during one transaction: whether the venue
\* accepts a mint and how much of each token the pool's price lets it use, the
\* pool's tick (slot0), the oracle's answer and its age, and what the owner's
\* receive() does when it is sent ETH.
PoolTicks == {100}
VenueUses == {<<MaxAmount + MaxFee, MaxAmount + MaxFee>>, <<1, 0>>, <<0, 1>>}
OracleAnswers == {-1, 0, 1000000000}
OracleAges == {PRICE_STALENESS_THRESHOLD, PRICE_STALENESS_THRESHOLD + 1}
ConstructorRangePercents == {0, 15}
RangeArguments == {0, 100, 101}
TickArguments == {<<-60, 60>>, <<60, -60>>}
PriceArguments == {0, 300000000}

Env(mintOk, use, tick, answer, age, hook, hookArg) ==
    [mintOk |-> mintOk, use0 |-> use[1], use1 |-> use[2], tick |-> tick,
     answer |-> answer, age |-> age, hook |-> hook, hookArg |-> hookArg]

QuietEnv == Env(TRUE, <<MaxAmount + MaxFee, MaxAmount + MaxFee>>, 100,
                1000000000, 0, "none", 0)

\* the environments of a call that mints: the venue takes what VenueUses says,
\* or rejects the mint
MintEnvs ==
    {[QuietEnv EXCEPT !.use0 = u[1], !.use1 = u[2], !.tick = t] :
        u \in VenueUses, t \in PoolTicks}
    \cup {[QuietEnv EXCEPT !.mintOk = FALSE, !.tick = t] : t \in PoolTicks}

\* the environments of a call that reads the oracle
OracleEnvs ==
    {[QuietEnv EXCEPT !.answer = a, !.age = g, !.tick = t] :
        a \in OracleAnswers, g \in OracleAges, t \in PoolTicks}

\* the environments of a call that sends the owner ETH
HookEnvs ==
    {[QuietEnv EXCEPT !.hook = h[1], !.hookArg = h[2]] :
        h \in {<<"none", 0>>, <<"reject", 0>>, <<"closePosition", 0>>,
               <<"rebalance", 0>>}
              \cup {<<"updateRange", r>> : r \in RangeArguments}
              \cup {<<"collectFees", i>> : i \in 1..MaxTokenId}}

\* ------------------------------------------------------------ state machine
NoTx == [op |-> "none", caller |-> Owner, ok |-> TRUE, err |-> "",
         ret |-> NoRet, events |-> <<>>, calls |-> <<>>, nested |-> NoNested]

\* the monitoring process is not running: no configuration is loaded
NoService == [config |-> "none", initialPrice |-> "null"]

Init ==
    /\ currentTokenId = 0
    /\ rangePercent \in ConstructorRangePercents
    /\ entered = FALSE
    /\ wbtc = [a \in Accounts |-> IF a = Owner THEN MaxAmount ELSE 0]
    /\ usdc = [a \in Accounts |-> IF a = Owner THEN MaxAmount ELSE 0]
    /\ eth = [a \in Accounts |-> IF a = Owner THEN MaxEth ELSE 0]
    /\ positions = [i \in 1..MaxTokenId |-> NoPosition]
    /\ nextTokenId = 1
    /\ last = NoTx
    /\ prev = "other"
    /\ service = NoService

\* A transaction ends: the state is the world the call returned (the world it
\* was given when it reverted), and the call is recorded.
Commit(op, caller, call) ==
    \E r \in {call} :
    /\ currentTokenId' = r.w.currentTokenId
    /\ rangePercent' = r.w.rangePercent
    /\ entered' = r.w.entered
    /\ wbtc' = r.w.wbtc
    /\ usdc' = r.w.usdc
    /\ eth' = r.w.eth
    /\ positions' = r.w.positions
    /\ nextTokenId' = r.w.nextTokenId
    /\ last' = [op |-> op, caller |-> caller, ok |-> r.ok, err |-> r.err,
                ret |-> r.ret, events |-> r.w.events, calls |-> r.w.calls,
                nested |-> r.w.nested]
    /\ prev' = IF last.op = op /\ last.caller = caller
               THEN (IF last.ok THEN "returned" ELSE last.err)
               ELSE IF last.op = "createPosition" /\ last.ok THEN "created"
               ELSE "other"
    /\ UNCHANGED service

\* the venue issues ids up to MaxTokenId
CanMint == nextTokenId <= MaxTokenId

CreatePositionBy(caller, amount0Desired, amount1Desired, tickLower, tickUpper, env) ==
    /\ CanMint
    /\ Commit("createPosition", caller,
              createPosition(World, caller, amount0Desired, amount1Desired,
                             tickLower, tickUpper, env))

AddLiquidityFromContractBy(caller, env) ==
    /\ CanMint
    /\ Commit("addLiquidityFromContract", caller,
              addLiquidityFromContract(World, caller, env))

AddLiquidityFromContractPrioritizedBy(caller, wbtcPrice, tickLower, tickUpper, env) ==
    /\ CanMint
    /\ Commit("addLiquidityFromContractPrioritized", caller,
              addLiquidityFromContractPrioritized(World, caller, wbtcPrice,
                                                  tickLower, tickUpper, env))

CollectFeesBy(caller, tokenId) ==
    Commit("collectFees", caller, collectFees(World, caller, tokenId))

CollectFeesAndWithdrawBy(caller) ==
    Commit("collectFeesAndWithdraw", caller,
           collectFeesAndWithdraw(World, caller))

ClosePositionBy(caller) ==
    Commit("closePosition", caller, closePosition(World, caller))

RebalanceBy(caller, env) ==
    /\ CanMint
    /\ Commit("rebalance", caller, rebalance(World, caller, env))

UpdateRangeBy(caller, newRangePercent) ==
    Commit("updateRange", caller, updateRange(World, caller, newRangePercent))

CompoundBy(caller, env) ==
    /\ CanMint
    /\ Commit("compound", caller, compound(World, caller, env))

EmergencyWithdrawBy(caller, env) ==
    Commit("emergencyWithdraw", caller, emergencyWithdraw(World, caller, env))

TxCreatePosition ==
    \E caller \in Callers, a0 \in 0..MaxAmount, a1 \in 0..MaxAmount,
       t \in TickArguments, env \in MintEnvs :
        env.tick = QuietEnv.tick /\ CreatePositionBy(caller, a0, a1, t[1], t[2], env)

TxAddLiquidityFromContract ==
    \E caller \in Callers, env \in MintEnvs :
        AddLiquidityFromContractBy(caller, env)

TxAddLiquidityFromContractPrioritized ==
    \E caller \in Callers, price \in PriceArguments, t \in TickArguments,
       env \in MintEnvs :
        /\ env.tick = QuietEnv.tick
        /\ AddLiquidityFromContractPrioritizedBy(caller, price, t[1], t[2], env)

TxCollectFees ==
    \E caller \in Callers, tokenId \in 1..MaxTokenId :
        CollectFeesBy(caller, tokenId)

TxCollectFeesAndWithdraw ==
    \E caller \in Callers : CollectFeesAndWithdrawBy(caller)

TxClosePosition ==
    \E caller \in Callers : ClosePositionBy(caller)

TxRebalance ==
    \E caller \in Callers, env \in MintEnvs : RebalanceBy(caller, env)

TxUpdateRange ==
    \E caller \in Callers, newRangePercent \in RangeArguments :
        UpdateRangeBy(caller, newRangePercent)

TxCompound ==
    \E caller \in Callers, env \in OracleEnvs : CompoundBy(caller, env)

TxEmergencyWithdraw ==
    \E caller \in Callers, env \in HookEnvs : EmergencyWithdrawBy(caller, env)

\* Something other than a call of the contract happened
Outside(what) ==
    /\ last' = [NoTx EXCEPT !.op = what]
    /\ prev' = "other"
    /\ UNCHANGED service

\* receive() external payable: the owner sends the contract one wei
ReceiveEth ==
    /\ eth[Owner] > 0
    /\ eth' = transfer(eth, Owner, Self, 1)
    /\ Outside("receive")
    /\ UNCHANGED <<currentTokenId, rangePercent, entered, wbtc, usdc,
                   positions, nextTokenId>>

\* An ERC-20 transfer of one unit from the owner to the contract's address
DepositToken ==
    \E token \in {"wbtc", "usdc"} :
        /\ IF token = "wbtc" THEN wbtc[Owner] > 0 ELSE usdc[Owner] > 0
        /\ wbtc' = IF token = "wbtc" THEN transfer(wbtc, Owner, Self, 1) ELSE wbtc
        /\ usdc' = IF token = "usdc" THEN transfer(usdc, Owner, Self, 1) ELSE usdc
        /\ Outside("deposit")
        /\ UNCHANGED <<currentTokenId, rangePercent, entered, eth, positions,
                       nextTokenId>>

\* Tokens in circulation beyond what the owner started with: fees paid in
FeesPaid == (wbtc[Self] + wbtc[Owner] + wbtc[Venue] - MaxAmount)
            + (usdc[Self] + usdc[Owner] + usdc[Venue] - MaxAmount)

\* Trading in the pool: a position with liquidity earns one fee unit
AccrueFees ==
    \E tokenId \in 1..MaxTokenId, token \in {"wbtc", "usdc"} :
        /\ positions[tokenId].exists
        /\ positions[tokenId].liquidity > 0
        /\ FeesPaid < MaxFee
        /\ IF token = "wbtc"
           THEN /\ wbtc' = [wbtc EXCEPT ![Venue] = @ + 1]
                /\ positions' = [positions EXCEPT ![tokenId].tokensOwed0 = @ + 1]
                /\ usdc' = usdc
           ELSE /\ usdc' = [usdc EXCEPT ![Venue] = @ + 1]
                /\ positions' = [positions EXCEPT ![tokenId].tokensOwed1 = @ + 1]
                /\ wbtc' = wbtc
        /\ Outside("fees")
        /\ UNCHANGED <<currentTokenId, rangePercent, entered, eth, nextTokenId>>

Next ==
    \/ TxCreatePosition
    \/ TxAddLiquidityFromContract
    \/ TxAddLiquidityFromContractPrioritized
    \/ TxCollectFees
    \/ TxCollectFeesAndWithdraw
    \/ TxClosePosition
    \/ TxRebalance
    \/ TxUpdateRange
    \/ TxCompound
    \/ TxEmergencyWithdraw
    \/ ReceiveEth
    \/ DepositToken
    \/ AccrueFees

Spec == Init /\ [][Next]_vars

\* ---------------------------------------------------------------- properties
\* what a transaction that reverts must leave as it was: the contract's
\* storage, every balance, the venue's positions
chain == <<currentTokenId, rangePercent, entered, wbtc, usdc, eth, positions,
           nextTokenId>>

\* Active: the manager holds a position and the venue has its liquidity
Active == currentTokenId # 0 /\ positions[currentTokenId].liquidity > 0

HasEvent(events, name) == \E i \in DOMAIN events : events[i].name = name

\* C1: when the owner calls rebalance() on an Active manager (valid range,
\* venue and pool cooperating), the call returns, the identifier it returns is
\* non-zero, differs from the old one and is the current identifier
\* afterwards, and the old position is closed.
C1_OwnerRebalanceSucceeds ==
    [][(Active /\ rangePercent > 0 /\ RebalanceBy(Owner, QuietEnv))
       => /\ last'.ok
          /\ last'.ret.tokenId # 0
          /\ last'.ret.tokenId # currentTokenId
          /\ currentTokenId' = last'.ret.tokenId
          /\ ~positions'[currentTokenId].exists]_vars

C3_AnyoneCompounds ==
    [][\A caller \in Callers, env \in OracleEnvs :
        (/\ Active /\ rangePercent > 0
         /\ hasFees(positions[currentTokenId].tokensOwed0,
                    positions[currentTokenId].tokensOwed1)
         /\ getValidatedWBTCPrice(env).ok
         /\ CompoundBy(caller, env))
        => /\ last'.ok
           /\ HasEvent(last'.events, "FeesCompounded")
           /\ currentTokenId' # 0
           /\ positions'[currentTokenId'].liquidity > 0]_vars

\* C4: at most one position is open at a time: every venue position of the
\* manager that holds liquidity is the one recorded in currentTokenId.
C4_AtMostOneOpenPosition ==
    \A tokenId \in 1..MaxTokenId :
        (positions[tokenId].exists /\ positions[tokenId].liquidity > 0)
        => tokenId = currentTokenId

\* C5: a state-changing function called back while a guarded operation is in
\* flight (here from the owner's receive() during emergencyWithdraw) is
\* rejected: it never executes inside the operation.
C5_ReentrantCallRejected ==
    last.nested.fn # "none" => ~last.nested.ok

\* C6: of two rebalance() calls the owner issues one after the other on an
\* Active manager, exactly one returns and the other is rejected as a
\* reentrant call.
C6_OneSuccessOneRejection ==
    (/\ last.op = "rebalance" /\ last.caller = Owner
     /\ prev \notin {"other", "created", ErrNoPosition}
     /\ Active)
    => \/ last.ok /\ prev = ErrReentrant
       \/ prev = "returned" /\ ~last.ok /\ last.err = ErrReentrant

\* C7: rebalance(), closePosition() and compound() called on an Empty manager
\* by a caller the function admits (the owner; anyone for compound) fail with
\* "No active position" and leave the held identifier, the holdings, the
\* range and everything else as they were.
C7_EmptyRejectsLifecycleCalls ==
    [][(/\ currentTokenId = 0
        /\ last'.op \in {"rebalance", "closePosition", "compound"}
        /\ (last'.caller = Owner \/ last'.op = "compound"))
       => /\ ~last'.ok
          /\ last'.err = ErrNoPosition
          /\ UNCHANGED chain]_vars

\* compound() by a stranger has just failed on an Empty manager that holds
\* tokens
C7_Witness ==
    /\ last.op = "compound" /\ last.caller = Other
    /\ ~last.ok /\ last.err = ErrNoPosition
    /\ currentTokenId = 0
    /\ wbtc[Self] + usdc[Self] > 0

\* C8: compound() on an Active manager whose position is owed no fees in
\* either token fails with "No fees to compound" and leaves the state as it
\* was: same identifier, same holdings, no new position.
C8_NoFeesNoCompound ==
    [][(/\ Active
        /\ positions[currentTokenId].tokensOwed0 = 0
        /\ positions[currentTokenId].tokensOwed1 = 0
        /\ last'.op = "compound")
       => /\ ~last'.ok
          /\ last'.err = ErrNoFees
          /\ UNCHANGED chain]_vars

\* compound() has just failed for want of fees on an Active manager
C8_Witness ==
    /\ last.op = "compound" /\ ~last.ok /\ last.err = ErrNoFees
    /\ Active
    /\ positions[currentTokenId].tokensOwed0 = 0
    /\ positions[currentTokenId].tokensOwed1 = 0

\* C9: a closePosition() by the owner right after a createPosition that
\* returned succeeds, clears the current identifier, frees exactly what the
\* create put into the position, and adds exactly that to the manager's
\* holdings (taken from the venue), the position being gone.
C9_CreateThenClose ==
    [][(/\ last.op = "createPosition" /\ last.ok
        /\ last'.op = "closePosition" /\ last'.caller = Owner)
       => /\ last'.ok
          /\ currentTokenId' = 0
          /\ last'.ret.amount0 = last.ret.amount0
          /\ last'.ret.amount1 = last.ret.amount1
          /\ wbtc'[Self] = wbtc[Self] + last'.ret.amount0
          /\ usdc'[Self] = usdc[Self] + last'.ret.amount1
          /\ wbtc'[Venue] = wbtc[Venue] - last'.ret.amount0
          /\ usdc'[Venue] = usdc[Venue] - last'.ret.amount1
          /\ ~positions'[currentTokenId].exists]_vars

\* a closePosition() right after a createPosition has returned and freed
\* tokens: the manager is Empty and holds them
C9_Witness ==
    /\ last.op = "closePosition" /\ last.ok /\ prev = "created"
    /\ currentTokenId = 0
    /\ last.ret.amount0 + last.ret.amount1 > 0
    /\ wbtc[Self] >= last.ret.amount0 /\ usdc[Self] >= last.ret.amount1

\* C10: a closePosition() that returns has made exactly three venue calls on
\* the held position, in this order: decreaseLiquidity of all its liquidity,
\* collect to the manager itself, burn; the identifier was still held at each
\* of them and is cleared afterwards; at the burn the position had no
\* liquidity and nothing owed.
C10_CloseOrder ==
    (last.op = "closePosition" /\ last.ok)
    => /\ Len(last.calls) = 3
       /\ last.calls[1].name = "decreaseLiquidity"
       /\ last.calls[1].x > 0
       /\ last.calls[2].name = "collect"
       /\ last.calls[2].recipient = Self
       /\ last.calls[3].name = "burn"
       /\ last.calls[3].x = 0 /\ last.calls[3].y = 0
       /\ \A i \in 1..3 : /\ last.calls[i].held # 0
                          /\ last.calls[i].tokenId = last.calls[i].held
                          /\ last.calls[i].tokenId = last.calls[1].tokenId
       /\ currentTokenId = 0

\* a closePosition() has returned after a close that freed tokens
C10_Witness ==
    /\ last.op = "closePosition" /\ last.ok
    /\ Len(last.calls) = 3
    /\ last.calls[2].x + last.calls[2].y > 0

\* the manager holds no ETH, no WBTC and no USDC
NothingHeld == eth[Self] = 0 /\ wbtc[Self] = 0 /\ usdc[Self] = 0

\* C11 as the specification states it: emergencyWithdraw() by the owner on a
\* manager that holds nothing returns, with all amounts zero.
C11_EmptyWithdrawIsNoOp ==
    [][(NothingHeld /\ last'.op = "emergencyWithdraw" /\ last'.caller = Owner)
       => /\ last'.ok
          /\ last'.ret.amount0 = 0 /\ last'.ret.amount1 = 0
          /\ last'.ret.amount2 = 0]_vars

\* C11, amended: emergencyWithdraw() by the owner on a manager that holds
\* nothing does not return: it fails and changes nothing; and an
\* emergencyWithdraw() that returns has withdrawn a non-zero amount.
C11_EmptyWithdrawFails ==
    [][(last'.op = "emergencyWithdraw" /\ last'.caller = Owner)
       => /\ NothingHeld => (~last'.ok /\ UNCHANGED chain)
          /\ last'.ok => last'.ret.amount0 + last'.ret.amount1
                           + last'.ret.amount2 > 0]_vars

\* the owner's emergencyWithdraw() has failed on an Empty manager that holds
\* nothing
C11_Witness ==
    /\ last.op = "emergencyWithdraw" /\ last.caller = Owner /\ ~last.ok
    /\ NothingHeld /\ currentTokenId = 0

\* C12: emergencyWithdraw() by the owner reverts with "No assets to withdraw"
\* when the manager holds no ETH, no WBTC and no USDC.
C12_NoAssetsToWithdraw ==
    [][(NothingHeld /\ last'.op = "emergencyWithdraw" /\ last'.caller = Owner)
       => (~last'.ok /\ last'.err = ErrNoAssets)]_vars

\* the owner's emergencyWithdraw() has reverted with "No assets to withdraw"
\* while all the funds sit in an open position
C12_Witness ==
    /\ last.op = "emergencyWithdraw" /\ last.caller = Owner
    /\ ~last.ok /\ last.err = ErrNoAssets
    /\ NothingHeld /\ Active

\* C13: an emergencyWithdraw() by the owner that returns leaves the manager
\* with no ETH, WBTC or USDC, returns the balances the manager held before
\* the call, and raises the owner's balances by exactly those amounts.
C13_WithdrawSweepsEverything ==
    [][(last'.op = "emergencyWithdraw" /\ last'.caller = Owner /\ last'.ok)
       => /\ eth'[Self] = 0 /\ wbtc'[Self] = 0 /\ usdc'[Self] = 0
          /\ last'.ret.amount2 = eth[Self]
          /\ last'.ret.amount0 = wbtc[Self]
          /\ last'.ret.amount1 = usdc[Self]
          /\ eth'[Owner] = eth[Owner] + eth[Self]
          /\ wbtc'[Owner] = wbtc[Owner] + wbtc[Self]
          /\ usdc'[Owner] = usdc[Owner] + usdc[Self]]_vars

\* the functions that carry onlyOwner
OwnerOnly ==
    {"createPosition", "addLiquidityFromContract",
     "addLiquidityFromContractPrioritized", "closePosition", "rebalance",
     "collectFees", "collectFeesAndWithdraw", "updateRange",
     "emergencyWithdraw"}

\* C14: every state-changing function other than compound() rejects a caller
\* that is not the owner, and the rejected call changes no state and moves no
\* assets.
C14_OwnerOnly ==
    [][(last'.op \in OwnerOnly /\ last'.caller # Owner)
       => /\ ~last'.ok
          /\ last'.err = ErrUnauthorized
          /\ UNCHANGED chain]_vars

\* a stranger's emergencyWithdraw() has been rejected while the manager holds
\* tokens and a position
C14_Witness ==
    /\ last.op = "emergencyWithdraw" /\ last.caller = Other
    /\ ~last.ok /\ last.err = ErrUnauthorized
    /\ wbtc[Self] + usdc[Self] > 0
    /\ Active

\* C16: a quote whose value is <= 0 makes compound() fail without minting
\* any liquidity: in every state where a position is owed fees, compound()
\* on such a quote reverts and hands back the world as it was; when the quote
\* is fresh the failure is "Invalid Chainlink price".
C16_InvalidQuoteFailsCompound ==
    (/\ Active
     /\ hasFees(positions[currentTokenId].tokensOwed0,
                positions[currentTokenId].tokensOwed1))
    => \A caller \in Callers, env \in OracleEnvs :
         env.answer <= 0
         => \A r \in {compound(World, caller, env)} :
              /\ ~r.ok
              /\ r.w = World
              /\ (env.age <= PRICE_STALENESS_THRESHOLD => r.err = ErrBadPrice)

\* compound() has failed on the oracle's value, the position still owed its
\* fees
C16_Witness ==
    /\ last.op = "compound" /\ ~last.ok /\ last.err = ErrBadPrice
    /\ Active
    /\ hasFees(positions[currentTokenId].tokensOwed0,
               positions[currentTokenId].tokensOwed1)

\* ------------------------------------------- views and range configuration
\* A second specification: the deployed contract with any constructor range,
\* its owner updating the range, and its view computations applied to inputs
\* drawn from bounded sets.  `last` records each application with its
\* arguments.
ViewTickBound == 120     \* view calls take the ticks -ViewTickBound..ViewTickBound
TestTick == 253320       \* int24 currentTick = 253320; // Example tick
ChainlinkMaxAge == 3600  \* if (now - timestamp > 3600)
ChainlinkDecimals == 8   \* priceFeed.decimals() of the BTC/USD feed

ViewTicks == (-ViewTickBound..ViewTickBound) \cup {-TestTick, TestTick}
ViewRangePercents == {-1, 0, 15}
ViewRangeArguments == {-1, 0, 1, 50, 99, 100, 101}
ViewQuotes ==
    {[QuietEnv EXCEPT !.answer = a, !.age = g] :
        a \in {-1, 0, 1, 1000000000},
        g \in {0, PRICE_STALENESS_THRESHOLD, PRICE_STALENESS_THRESHOLD + 1,
               2 * PRICE_STALENESS_THRESHOLD}}

\* priceService.getPriceFromChainlink with a provider configured: null for a
\* stale quote, else the price answer / 10^decimals (kept as that fraction)
getPriceFromChainlink(env) ==
    IF env.age > ChainlinkMaxAge
    THEN [ok |-> FALSE, err |-> "null", price |-> 0, decimals |-> 0]
    ELSE [ok |-> TRUE, err |-> "", price |-> env.answer,
          decimals |-> ChainlinkDecimals]

ViewInit ==
    /\ currentTokenId = 0
    /\ rangePercent \in ViewRangePercents
    /\ entered = FALSE
    /\ wbtc = [a \in Accounts |-> IF a = Owner THEN MaxAmount ELSE 0]
    /\ usdc = [a \in Accounts |-> IF a = Owner THEN MaxAmount ELSE 0]
    /\ eth = [a \in Accounts |-> IF a = Owner THEN MaxEth ELSE 0]
    /\ positions = [i \in 1..MaxTokenId |-> NoPosition]
    /\ nextTokenId = 1
    /\ last = NoTx
    /\ prev = "other"
    /\ service = NoService

\* a view call: nothing changes, the application is recorded
Viewed(op, arg, ok, err, ret) ==
    /\ last' = [op |-> op, caller |-> Other, arg |-> arg, ok |-> ok,
                err |-> err, ret |-> ret]
    /\ prev' = "other"
    /\ UNCHANGED <<chain, service>>

ViewUpdateRange ==
    \E caller \in Callers, newRangePercent \in ViewRangeArguments :
        UpdateRangeBy(caller, newRangePercent)

ViewCalculateTickRange ==
    \E currentTick \in ViewTicks :
        \E t \in {calculateTickRange(rangePercent, currentTick)} :
            Viewed("calculateTickRange",
                   [currentTick |-> currentTick, rangePercent |-> rangePercent],
                   t.ok, IF t.ok THEN "" ELSE "Panic",
                   [tickLower |-> t.tickLower, tickUpper |-> t.tickUpper])

ViewValidatedWBTCPrice ==
    \E env \in ViewQuotes :
        \E p \in {getValidatedWBTCPrice(env)} :
            Viewed("_getValidatedWBTCPrice",
                   [answer |-> env.answer, age |-> env.age],
                   p.ok, p.err, [price |-> p.price, decimals |-> 6])

ViewPriceFromChainlink ==
    \E env \in ViewQuotes :
        \E p \in {getPriceFromChainlink(env)} :
            Viewed("getPriceFromChainlink",
                   [answer |-> env.answer, age |-> env.age],
                   p.ok, p.err, [price |-> p.price, decimals |-> p.decimals])

ViewNext ==
    \/ ViewUpdateRange
    \/ ViewCalculateTickRange
    \/ ViewValidatedWBTCPrice
    \/ ViewPriceFromChainlink

ViewSpec == ViewInit /\ [][ViewNext]_vars

\* C15: a quote observed more than 3600 seconds ago is rejected whatever its
\* value, by the contract's _getValidatedWBTCPrice ("Chainlink price too
\* stale") and by the service's getPriceFromChainlink (null): no price comes
\* out of it.
C15_StaleQuoteRejected ==
    (/\ last.op \in {"_getValidatedWBTCPrice", "getPriceFromChainlink"}
     /\ last.arg.age > 3600)
    => /\ ~last.ok
       /\ last.ret.price = 0
       /\ (last.op = "_getValidatedWBTCPrice" => last.err = ErrStale)

\* the contract's price check has just rejected a stale quote of a valid value
C15_Witness ==
    /\ last.op = "_getValidatedWBTCPrice"
    /\ last.arg.age = 3601 /\ last.arg.answer > 0
    /\ ~last.ok /\ last.err = ErrStale

ValidRangePercents == 1..100

\* C17: for every current tick, positive, zero or negative, and every valid
\* rangePercent, calculateTickRange returns tickLower < currentTick <
\* tickUpper, both exact multiples of the tick spacing.
C17_RangeBracketsTick ==
    (last.op = "calculateTickRange"
       /\ last.arg.rangePercent \in ValidRangePercents)
    => /\ last.ok
       /\ last.ret.tickLower < last.arg.currentTick
       /\ last.arg.currentTick < last.ret.tickUpper
       /\ last.ret.tickLower % tickSpacing = 0
       /\ last.ret.tickUpper % tickSpacing = 0

\* calculateTickRange has been applied to a negative tick that is no multiple
\* of the spacing, with the narrowest valid range
C17_Witness ==
    /\ last.op = "calculateTickRange"
    /\ last.arg.rangePercent = 1
    /\ last.arg.currentTick = -61
    /\ last.ret.tickLower < -61 /\ -61 < last.ret.tickUpper

\* the largest multiple of spacing that is <= x, the smallest that is >= x
RoundDown(x, spacing) == x - (x % spacing)
RoundUp(x, spacing) == RoundDown(x + spacing - 1, spacing)

\* C18: the lower bound is the raw lower bound (currentTick - tickRange)
\* rounded down to the spacing, the upper bound the raw upper bound rounded
\* up, for positive and negative ticks alike.
C18_RoundsDownAndUp ==
    (last.op = "calculateTickRange" /\ last.ok
       /\ last.arg.rangePercent \in ValidRangePercents)
    => \A tickRange \in {SDiv(last.arg.rangePercent * TicksPer15Percent, 15)} :
        /\ last.ret.tickLower =
               RoundDown(last.arg.currentTick - tickRange, tickSpacing)
        /\ last.ret.tickUpper =
               RoundUp(last.arg.currentTick + tickRange, tickSpacing)

\* C19: calculateTickRange rejects a rangePercent that is <= 0 or >= 100 with
\* "Invalid range" instead of returning tick bounds.
C19_RangeComputationValidates ==
    (last.op = "calculateTickRange"
       /\ (last.arg.rangePercent <= 0 \/ last.arg.rangePercent >= 100))
    => (~last.ok /\ last.err = ErrRange)

\* C20: updateRange(newRangePercent) by the owner returns and stores the new
\* value exactly when 0 < newRangePercent <= 100; any other value is rejected
\* with "Invalid range" and leaves rangePercent, and everything else, as it
\* was.
C20_UpdateRangeValidates ==
    [][\A newRangePercent \in ViewRangeArguments :
        UpdateRangeBy(Owner, newRangePercent)
        => IF 0 < newRangePercent /\ newRangePercent <= 100
           THEN last'.ok /\ rangePercent' = newRangePercent
           ELSE ~last'.ok /\ last'.err = ErrRange /\ UNCHANGED chain]_vars

\* the owner's updateRange(101) has been rejected after an updateRange(100)
\* that was stored
C20_Witness ==
    /\ last.op = "updateRange" /\ last.caller = Owner
    /\ ~last.ok /\ last.err = ErrRange
    /\ prev = "returned"
    /\ rangePercent = 100

\* C21: an updateRange that returns changes rangePercent, to the value it was
\* given, and nothing else: the held identifier, the venue's positions (tick
\* bounds, liquidity) and every balance are as before; the range computation
\* of a later addLiquidityFromContract uses the value stored at that time.
C21_UpdateRangeOnlyRange ==
    [][/\ (last'.op = "updateRange" /\ last'.ok)
          => /\ UNCHANGED <<currentTokenId, entered, wbtc, usdc, eth,
                            positions, nextTokenId>>
             /\ Len(last'.events) = 1
             /\ last'.events[1].name = "RangeUpdated"
             /\ rangePercent' = last'.events[1].x
       /\ (last'.op = "addLiquidityFromContract" /\ last'.ok)
          => \A t \in {calculateTickRange(rangePercent, QuietEnv.tick)} :
               /\ positions'[currentTokenId'].tickLower = t.tickLower
               /\ positions'[currentTokenId'].tickUpper = t.tickUpper]_vars

\* updateRange(100) has returned while the manager holds a position opened
\* with the range 15: the position keeps the ticks of the old range
C21_Witness ==
    /\ last.op = "updateRange" /\ last.ok
    /\ rangePercent = 100
    /\ Active
    /\ positions[currentTokenId].tickLower
         = calculateTickRange(15, QuietEnv.tick).tickLower
    /\ positions[currentTokenId].tickLower
         # calculateTickRange(100, QuietEnv.tick).tickLower

\* C22: a createPosition that returns has given back to the caller what the
\* venue did not use of the amounts pulled: the caller has paid exactly the
\* amounts used and the manager's holdings are what they were.
C22_UnusedRefunded ==
    [][(last'.op = "createPosition" /\ last'.ok)
       => /\ wbtc'[Owner] = wbtc[Owner] - last'.ret.amount0
          /\ usdc'[Owner] = usdc[Owner] - last'.ret.amount1
          /\ wbtc'[Self] = wbtc[Self]
          /\ usdc'[Self] = usdc[Self]]_vars

\* C23: addLiquidityFromContract() by the owner fails with "No tokens in
\* contract" when the manager holds neither token; no position is created
\* and nothing changes.
C23_NoTokensNoLiquidity ==
    [][(/\ wbtc[Self] = 0 /\ usdc[Self] = 0
        /\ last'.op = "addLiquidityFromContract" /\ last'.caller = Owner)
       => /\ ~last'.ok
          /\ last'.err = ErrNoTokens
          /\ UNCHANGED chain]_vars

\* the owner's addLiquidityFromContract() has failed for want of tokens while
\* a position is open
C23_Witness ==
    /\ last.op = "addLiquidityFromContract" /\ last.caller = Owner
    /\ ~last.ok /\ last.err = ErrNoTokens
    /\ wbtc[Self] = 0 /\ usdc[Self] = 0
    /\ Active

\* a token leaves the manager's holdings for the owner
MovedToOwner ==
    \/ wbtc'[Self] < wbtc[Self] /\ wbtc'[Owner] > wbtc[Owner]
    \/ usdc'[Self] < usdc[Self] /\ usdc'[Owner] > usdc[Owner]

\* C24 as the specification states it: addLiquidityFromContract refunds
\* nothing, and tokens held by the manager reach the owner only through
\* emergencyWithdraw.
C24_OnlyEmergencyWithdraw ==
    [][/\ (last'.op = "addLiquidityFromContract")
          => (wbtc'[Owner] = wbtc[Owner] /\ usdc'[Owner] = usdc[Owner])
       /\ MovedToOwner
          => (last'.op = "emergencyWithdraw" /\ last'.ok
                /\ last'.caller = Owner)]_vars

\* C24, amended: addLiquidityFromContract refunds nothing (the owner's
\* balances are untouched, what the venue did not use stays in the manager),
\* and tokens held by the manager reach the owner only through two calls of
\* the owner: emergencyWithdraw and collectFeesAndWithdraw.
C24_OnlyOwnerWithdrawals ==
    [][/\ (last'.op = "addLiquidityFromContract")
          => (wbtc'[Owner] = wbtc[Owner] /\ usdc'[Owner] = usdc[Owner])
       /\ MovedToOwner
          => (/\ last'.op \in {"emergencyWithdraw", "collectFeesAndWithdraw"}
              /\ last'.ok
              /\ last'.caller = Owner)]_vars

\* addLiquidityFromContract() has returned and part of what the manager held
\* is still in its holdings
C24_Witness ==
    /\ last.op = "addLiquidityFromContract" /\ last.ok
    /\ last.calls[1].x + last.calls[1].y
         > last.ret.amount0 + last.ret.amount1
    /\ wbtc[Self] + usdc[Self] > 0

\* C25: collectFees on the held position when no fees are owed returns, with
\* zero amounts, records one FeesCollected event of zero amounts and moves no
\* token; it does not fail for lack of fees.
C25_ZeroFeesCollected ==
    (/\ Active
     /\ positions[currentTokenId].tokensOwed0 = 0
     /\ positions[currentTokenId].tokensOwed1 = 0)
    => \A r \in {collectFees(World, Owner, currentTokenId)} :
         /\ r.ok
         /\ r.ret.amount0 = 0 /\ r.ret.amount1 = 0
         /\ r.w.events = <<Event("FeesCollected", currentTokenId, 0, 0, 0)>>
         /\ r.w.wbtc = wbtc /\ r.w.usdc = usdc

\* collectFees on the held position has returned with a zero-amount event
C25_Witness ==
    /\ last.op = "collectFees" /\ last.ok
    /\ Active
    /\ last.events = <<Event("FeesCollected", currentTokenId, 0, 0, 0)>>

\* C26: a collectFees(id) that returns was given the identifier the manager
\* holds, on an Active manager; with any other id, or on an Empty manager, it
\* collects nothing.
C26_CollectsOnlyCurrent ==
    (last.op = "collectFees" /\ last.ok)
    => /\ Len(last.calls) = 1
       /\ last.calls[1].held # 0
       /\ last.calls[1].tokenId = last.calls[1].held

Scale == 1000            \* finite values are kept in thousandths

Num(v) == [kind |-> "finite", v |-> v]
Whole(n) == Num(n * Scale)
NaN == [kind |-> "NaN", v |-> 0]
PosInfinity == [kind |-> "Infinity", v |-> 0]
NegInfinity == [kind |-> "-Infinity", v |-> 0]

Abs(n) == IF n < 0 THEN 0 - n ELSE n
Sign(a) ==
    IF a.kind = "Infinity" THEN 1
    ELSE IF a.kind = "-Infinity" THEN -1
    ELSE IF a.v > 0 THEN 1 ELSE IF a.v < 0 THEN -1 ELSE 0
Signed(sign, magnitude) == IF sign < 0 THEN 0 - magnitude ELSE magnitude
InfinityOf(sign) == IF sign < 0 THEN NegInfinity ELSE PosInfinity

\* |a| / |b| of two values in thousandths, to three decimal places, digit by
\* digit; whole numbers are divided as such
FixDiv(a, b) ==
    LET LongDiv(n, d) ==
            LET r0 == n % d
                r1 == (r0 * 10) % d
                r2 == (r1 * 10) % d
            IN  (n \div d) * Scale + ((r0 * 10) \div d) * 100
                + ((r1 * 10) \div d) * 10 + ((r2 * 10) \div d)
    IN  IF a % Scale = 0 /\ b % Scale = 0
        THEN LongDiv(a \div Scale, b \div Scale)
        ELSE LongDiv(a, b)

\* |a| * |b| / Scale without an intermediate product beyond the result's size
FixMul(a, b) ==
    LET ah == a \div Scale
        al == a % Scale
        bh == b \div Scale
        bl == b % Scale
    IN  ah * bh * Scale + ah * bl + al * bh + (al * bl) \div Scale

\* a / b
jsDiv(a, b) ==
    IF a.kind = "NaN" \/ b.kind = "NaN" THEN NaN
    ELSE IF a.kind # "finite"
         THEN IF b.kind # "finite" THEN NaN
              ELSE InfinityOf(Sign(a) * (IF b.v < 0 THEN -1 ELSE 1))
    ELSE IF b.kind # "finite" THEN Num(0)
    ELSE IF b.v = 0
         THEN IF a.v = 0 THEN NaN ELSE InfinityOf(Sign(a))
    ELSE Num(Signed(Sign(a) * Sign(b), FixDiv(Abs(a.v), Abs(b.v))))

\* a * b
jsMul(a, b) ==
    IF a.kind = "NaN" \/ b.kind = "NaN" THEN NaN
    ELSE IF a.kind # "finite" \/ b.kind # "finite"
         THEN IF Sign(a) = 0 \/ Sign(b) = 0 THEN NaN
              ELSE InfinityOf(Sign(a) * Sign(b))
    ELSE Num(Signed(Sign(a) * Sign(b), FixMul(Abs(a.v), Abs(b.v))))

\* a + b and a - b
jsAdd(a, b) ==
    IF a.kind = "NaN" \/ b.kind = "NaN" THEN NaN
    ELSE IF a.kind # "finite"
         THEN IF b.kind # "finite" /\ b.kind # a.kind THEN NaN ELSE a
    ELSE IF b.kind # "finite" THEN b
    ELSE Num(a.v + b.v)
jsSub(a, b) ==
    jsAdd(a, IF b.kind = "Infinity" THEN NegInfinity
             ELSE IF b.kind = "-Infinity" THEN PosInfinity
             ELSE IF b.kind = "NaN" THEN NaN
             ELSE Num(0 - b.v))

\* the largest k in lo..hi with k * k <= n
RECURSIVE IsqrtIn(_, _, _)
IsqrtIn(n, lo, hi) ==
    IF lo >= hi THEN lo
    ELSE LET mid == (lo + hi + 1) \div 2
         IN  IF mid * mid <= n THEN IsqrtIn(n, mid, hi)
             ELSE IsqrtIn(n, lo, mid - 1)

\* Math.sqrt(a)
jsSqrt(a) ==
    IF a.kind = "NaN" \/ a.kind = "-Infinity" THEN NaN
    ELSE IF a.kind = "Infinity" THEN PosInfinity
    ELSE IF a.v < 0 THEN NaN
    ELSE Num(IsqrtIn(a.v * Scale, 0, 46340))

\* a < b, a <= b: false when either is NaN
Rank(a) ==
    IF a.kind = "Infinity" THEN 1 ELSE IF a.kind = "-Infinity" THEN -1 ELSE 0
jsLess(a, b) ==
    /\ a.kind # "NaN" /\ b.kind # "NaN"
    /\ \/ Rank(a) < Rank(b)
       \/ Rank(a) = 0 /\ Rank(b) = 0 /\ a.v < b.v
jsLessEq(a, b) ==
    /\ a.kind # "NaN" /\ b.kind # "NaN"
    /\ \/ Rank(a) < Rank(b)
       \/ Rank(a) = Rank(b) /\ (Rank(a) # 0 \/ a.v <= b.v)

\* calculateAPR(avgDailyVolume, feeTier, avgTVL), in percent
calculateAPR(avgDailyVolume, feeTier, avgTVL) ==
    LET annualVolume == jsMul(avgDailyVolume, Whole(365))
        feeRate == jsDiv(Whole(feeTier), Whole(1000000))
        annualFees == jsMul(annualVolume, feeRate)
    IN  jsMul(jsDiv(annualFees, avgTVL), Whole(100))

\* 1 / (Math.sqrt(priceUpper) - Math.sqrt(priceLower)), the sqrt-price formula
sqrtConcentrationFactor(percent) ==
    LET priceLower == jsMul(Whole(1), jsSub(Whole(1), jsDiv(Whole(percent), Whole(100))))
        priceUpper == jsMul(Whole(1), jsAdd(Whole(1), jsDiv(Whole(percent), Whole(100))))
    IN  jsDiv(Whole(1), jsSub(jsSqrt(priceUpper), jsSqrt(priceLower)))

\* 100 / (2 * rangePercent), the linear formula
naiveConcentrationFactor(percent) ==
    jsDiv(Whole(100), jsMul(Whole(2), Whole(percent)))

\* calculateMetrics(poolData, feeTier) of the direct pool-data script
calculateMetrics(poolData, feeTier, config) ==
    LET baseAPR == calculateAPR(poolData.avgDailyVolume, feeTier, poolData.avgTVL)
        concentrationFactor == sqrtConcentrationFactor(config.rangePercent)
        effectiveAPR == jsMul(baseAPR, concentrationFactor)
        requiredCapital ==
            jsMul(jsDiv(config.targetAnnualFees, effectiveAPR), Whole(100))
    IN  [baseAPR |-> baseAPR, concentrationFactor |-> concentrationFactor,
         effectiveAPR |-> effectiveAPR, requiredCapital |-> requiredCapital]

\* displayPoolInfo(pool, stats) of the subgraph script, stats given: the
\* figures of its "APR Analysis" and "Capital Requirements" lines
displayPoolInfo(pool, stats, config) ==
    LET baseAPR == calculateAPR(stats.avgDailyVolume, pool.feeTier, stats.avgTVL)
        concentrationFactor == naiveConcentrationFactor(config.rangePercent)
        effectiveAPR == jsMul(baseAPR, concentrationFactor)
        requiredCapital ==
            jsMul(jsDiv(config.targetAnnualFees, effectiveAPR), Whole(100))
    IN  [baseAPR |-> baseAPR, concentrationFactor |-> concentrationFactor,
         effectiveAPR |-> effectiveAPR, requiredCapital |-> requiredCapital]

\* utils/calculations.js: calculateFeeAPR, a fraction, and
\* calculateConcentrationFactor
calculateFeeAPR(dailyVolume, feeTier, totalLiquidity) ==
    jsDiv(jsMul(jsMul(dailyVolume, Whole(365)), jsDiv(Whole(feeTier), Whole(1000000))),
          totalLiquidity)
calculateConcentrationFactor(percent) == sqrtConcentrationFactor(percent)

\* HISTORICAL_DATA_ESTIMATES by scenario, in thousands of USD
HISTORICAL_DATA_ESTIMATES ==
    [conservative |-> [dailyVolume |-> Whole(701), totalLiquidity |-> Whole(4611)],
     moderate |-> [dailyVolume |-> Whole(1002), totalLiquidity |-> Whole(3547)],
     optimistic |-> [dailyVolume |-> Whole(1303), totalLiquidity |-> Whole(2483)]]

\* analyzeHistoricalData(): the three scenarios in order
analyzeHistoricalData(config) ==
    LET scenarios == <<"conservative", "moderate", "optimistic">>
        result(scenario) ==
            LET dailyVolume == HISTORICAL_DATA_ESTIMATES[scenario].dailyVolume
                totalLiquidity ==
                    HISTORICAL_DATA_ESTIMATES[scenario].totalLiquidity
                baseAPR ==
                    calculateFeeAPR(dailyVolume, config.feeTier, totalLiquidity)
                concentrationFactor ==
                    calculateConcentrationFactor(config.rangePercent)
                effectiveAPR == jsMul(baseAPR, concentrationFactor)
                requiredCapital == jsDiv(config.targetAnnualFees, effectiveAPR)
            IN  [scenario |-> scenario,
                 baseAPR |-> jsMul(baseAPR, Whole(100)),
                 concentrationFactor |-> concentrationFactor,
                 effectiveAPR |-> jsMul(effectiveAPR, Whole(100)),
                 requiredCapital |-> requiredCapital]
    IN  [i \in 1..3 |-> result(scenarios[i])]

\* utils/calculations.js: the range of rangePercent around a price, whether a
\* price lies in a range, and the distances to its bounds in percent of the
\* price
calculatePriceRange(price, percent) ==
    [lower |-> jsMul(price, jsSub(Whole(1), jsDiv(Whole(percent), Whole(100)))),
     upper |-> jsMul(price, jsAdd(Whole(1), jsDiv(Whole(percent), Whole(100))))]
isPriceInRange(price, lower, upper) ==
    jsLessEq(lower, price) /\ jsLessEq(price, upper)
calculateDistanceToRangeBounds(price, lower, upper) ==
    [toLower |-> jsMul(jsDiv(jsSub(price, lower), price), Whole(100)),
     toUpper |-> jsMul(jsDiv(jsSub(upper, price), price), Whole(100))]

\* the alert level of getPositionStatus for a range and the distances to it
alertLevelOf(inRange, distanceToBounds, config) ==
    IF ~inRange THEN "critical"
    ELSE IF \/ jsLess(distanceToBounds.toLower, Whole(config.priceUrgentPercent))
            \/ jsLess(distanceToBounds.toUpper, Whole(config.priceUrgentPercent))
         THEN "urgent"
    ELSE IF \/ jsLess(distanceToBounds.toLower, Whole(config.priceWarningPercent))
            \/ jsLess(distanceToBounds.toUpper, Whole(config.priceWarningPercent))
         THEN "warning"
    ELSE "normal"

\* PositionService.getPositionStatus() when the price service returns
\* currentPrice
getPositionStatus(svc, currentPrice) ==
    LET priceRange == calculatePriceRange(currentPrice, svc.config.rangePercent)
        inRange == isPriceInRange(currentPrice, priceRange.lower, priceRange.upper)
        distanceToBounds ==
            calculateDistanceToRangeBounds(currentPrice, priceRange.lower,
                                           priceRange.upper)
    IN  [price |-> currentPrice,
         range |-> [lower |-> priceRange.lower, upper |-> priceRange.upper,
                    inRange |-> inRange],
         distance |-> distanceToBounds,
         alertLevel |-> alertLevelOf(inRange, distanceToBounds, svc.config),
         needsRebalancing |-> ~inRange]

\* the inputs
ServiceRangePercents == {0, 1, 3, 15, 50, 99}
\* the 0.30% and 1.00% pools (the 0.05% rate is below three decimal places)
FeeTiers == {3000, 10000}
AlertThresholds == {[priceWarningPercent |-> 12, priceUrgentPercent |-> 14],
                    [priceWarningPercent |-> 5, priceUrgentPercent |-> 2]}
Configs ==
    {[rangePercent |-> r, feeTier |-> f, targetAnnualFees |-> t,
      priceWarningPercent |-> a.priceWarningPercent,
      priceUrgentPercent |-> a.priceUrgentPercent] :
        r \in ServiceRangePercents, f \in FeeTiers,
        t \in {Whole(0), Num(15600)}, a \in AlertThresholds}
PoolDatas ==
    {[avgDailyVolume |-> v, avgTVL |-> l] :
        v \in {Whole(0), Whole(1002)}, l \in {Whole(0), Whole(3547)}}
Prices == {Whole(80), Whole(86), Whole(100), Whole(114), Whole(120)}

ServiceInit ==
    /\ currentTokenId = 0
    /\ rangePercent = 15
    /\ entered = FALSE
    /\ wbtc = [a \in Accounts |-> IF a = Owner THEN MaxAmount ELSE 0]
    /\ usdc = [a \in Accounts |-> IF a = Owner THEN MaxAmount ELSE 0]
    /\ eth = [a \in Accounts |-> IF a = Owner THEN MaxEth ELSE 0]
    /\ positions = [i \in 1..MaxTokenId |-> NoPosition]
    /\ nextTokenId = 1
    /\ last = NoTx
    /\ prev = "other"
    /\ service \in {[config |-> c, initialPrice |-> Num(0)] : c \in Configs}

\* a function of the process has returned: the call is recorded
Returned(op, arg, ret) ==
    /\ last' = [op |-> op, caller |-> Other, arg |-> arg, ok |-> TRUE,
                err |-> "", ret |-> ret]
    /\ prev' = "other"
    /\ UNCHANGED chain

RunCalculateMetrics ==
    \E poolData \in PoolDatas, feeTier \in FeeTiers :
        /\ Returned("calculateMetrics",
                    [poolData |-> poolData, feeTier |-> feeTier],
                    calculateMetrics(poolData, feeTier, service.config))
        /\ UNCHANGED service

RunDisplayPoolInfo ==
    \E stats \in PoolDatas, feeTier \in FeeTiers :
        /\ Returned("displayPoolInfo",
                    [poolData |-> stats, feeTier |-> feeTier],
                    displayPoolInfo([feeTier |-> feeTier], stats, service.config))
        /\ UNCHANGED service

RunAnalyzeHistoricalData ==
    /\ Returned("analyzeHistoricalData", [feeTier |-> service.config.feeTier],
                analyzeHistoricalData(service.config))
    /\ UNCHANGED service

\* PositionService.initialize(): the price at which tracking starts
Initialize ==
    \E price \in Prices :
        /\ service' = [service EXCEPT !.initialPrice = price]
        /\ Returned("initialize", [price |-> price], [price |-> price])

GetPositionStatus ==
    \E currentPrice \in Prices :
        /\ Returned("getPositionStatus", [price |-> currentPrice],
                    getPositionStatus(service, currentPrice))
        /\ UNCHANGED service

ServiceNext ==
    \/ RunCalculateMetrics
    \/ RunDisplayPoolInfo
    \/ RunAnalyzeHistoricalData
    \/ Initialize
    \/ GetPositionStatus

ServiceSpec == ServiceInit /\ [][ServiceNext]_vars

\* the calculations of capital and APR, and the figures each returned
Calculations == {"calculateMetrics", "displayPoolInfo", "analyzeHistoricalData"}
Figures ==
    IF last.op = "analyzeHistoricalData"
    THEN {last.ret[i] : i \in DOMAIN last.ret}
    ELSE IF last.op \in Calculations THEN {last.ret} ELSE {}

\* C28: for every rangePercent r with 0 < r < 100, the concentration factor
\* of every capital and APR calculation is 1/(sqrt(1 + r/100) -
\* sqrt(1 - r/100)) and is strictly greater than 100/(2r): no calculation
\* uses the linear formula.
C28_SqrtFormulaEverywhere ==
    (/\ last.op \in Calculations
     /\ service.config.rangePercent > 0
     /\ service.config.rangePercent < 100)
    => \A f \in Figures :
        /\ f.concentrationFactor
               = sqrtConcentrationFactor(service.config.rangePercent)
        /\ jsLess(naiveConcentrationFactor(service.config.rangePercent),
                  f.concentrationFactor)

positionRange == calculatePriceRange(service.initialPrice,
                                     service.config.rangePercent)

\* C30: once tracking is initialised, a check made at a price outside the
\* position's liquidity range reports "critical" with needsRebalancing; a
\* check made inside it reports "urgent" when the distance to a bound is
\* below the urgent threshold, otherwise "warning" when below the warning
\* threshold, otherwise "normal".
C30_AlertLevels ==
    (/\ last.op = "getPositionStatus"
     /\ jsLess(Whole(0), service.initialPrice))
    => LET inRange == isPriceInRange(last.arg.price, positionRange.lower,
                                     positionRange.upper)
           distanceToBounds ==
               calculateDistanceToRangeBounds(last.arg.price,
                                              positionRange.lower,
                                              positionRange.upper)
       IN  /\ last.ret.alertLevel
                  = alertLevelOf(inRange, distanceToBounds, service.config)
           /\ last.ret.needsRebalancing = ~inRange

\* ------------------------------------------------------- claims C31 to C39
\* C31: a collectFeesAndWithdraw() that returns leaves currentTokenId as it
\* was and the position it names with its liquidity, and leaves the contract
\* with no WBTC and no USDC: what it held, and the fees of the position, are
\* with the owner.
C31_WithdrawKeepsPosition ==
    [][(last'.op = "collectFeesAndWithdraw" /\ last'.ok)
       => /\ currentTokenId' = currentTokenId
          /\ \A i \in 1..MaxTokenId :
                /\ positions'[i].exists = positions[i].exists
                /\ positions'[i].liquidity = positions[i].liquidity
          /\ wbtc'[Self] = 0 /\ usdc'[Self] = 0
          /\ wbtc'[Owner] = wbtc[Owner] + wbtc[Self] + last'.ret.amount0
          /\ usdc'[Owner] = usdc[Owner] + usdc[Self] + last'.ret.amount1
          /\ last'.ret.amount2 = wbtc[Self]
          /\ last'.ret.amount3 = usdc[Self]]_vars

\* collectFeesAndWithdraw() has returned with a position open: it moved USDC
\* out of the contract and collected a fee
C31_Witness ==
    /\ last.op = "collectFeesAndWithdraw" /\ last.ok
    /\ Active
    /\ last.ret.amount3 > 0
    /\ last.ret.amount0 + last.ret.amount1 > 0
    /\ wbtc[Self] = 0 /\ usdc[Self] = 0

\* the tick distances of a move of the price by a percentage, down and up:
\* |log(1 - r/100)| / log(1.0001) and log(1 + r/100) / log(1.0001), to the
\* tick below (1398 ticks up for 15%)
TicksOfPriceMove ==
    [r \in {1, 15, 50, 99} |->
        CASE r = 1 -> [lower |-> 100, upper |-> 99]
          [] r = 15 -> [lower |-> 1625, upper |-> 1397]
          [] r = 50 -> [lower |-> 6931, upper |-> 4054]
          [] r = 99 -> [lower |-> 46054, upper |-> 6881]]

\* C32: the distance from the current tick to each bound that
\* calculateTickRange returns is, up to the rounding to the tick spacing, the
\* tick distance of a rangePercent move of the price in that direction
\* (price = 1.0001^tick), the lower and the upper one each by its own
\* logarithm: it is not the same linear multiple of rangePercent on both
\* sides.
C32_PriceSpaceDistances ==
    (/\ last.op = "calculateTickRange" /\ last.ok
     /\ last.arg.rangePercent \in DOMAIN TicksOfPriceMove)
    => LET move == TicksOfPriceMove[last.arg.rangePercent]
           lowerDistance == last.arg.currentTick - last.ret.tickLower
           upperDistance == last.ret.tickUpper - last.arg.currentTick
       IN  /\ Abs(lowerDistance - move.lower) <= tickSpacing
           /\ Abs(upperDistance - move.upper) <= tickSpacing

\* C33: rangePercent is within 1..100 in every reachable state of the
\* manager, the state after construction included.
C33_RangePercentValid == rangePercent \in ValidRangePercents

\* some call of the venue's mint is in the trace of a transaction
MintCalled(calls) == \E i \in DOMAIN calls : calls[i].name = "mint"

\* C34: whatever is called and by whom, no ETH, WBTC or USDC reaches an
\* account other than the owner and the venue, and the venue receives
\* tokens only as the input of a mint (or as fees paid by the pool's
\* traders); a caller who is not the owner, of compound() or of anything
\* else, gains nothing.
C34_OnlyOwnerOrVenue ==
    [][/\ wbtc'[Other] = wbtc[Other]
       /\ usdc'[Other] = usdc[Other]
       /\ eth'[Other] = eth[Other]
       /\ eth'[Venue] = eth[Venue]
       /\ (wbtc'[Venue] > wbtc[Venue] \/ usdc'[Venue] > usdc[Venue])
          => (last'.op = "fees" \/ (last'.ok /\ MintCalled(last'.calls)))
       /\ (last'.caller # Owner /\ last'.op \notin {"receive", "deposit", "fees"})
          => (/\ wbtc'[Self] >= wbtc[Self] /\ usdc'[Self] >= usdc[Self]
              /\ eth'[Self] >= eth[Self])]_vars

\* the manager has sent out ETH and WBTC in an emergencyWithdraw(), and the
\* account that is neither the owner nor the venue holds nothing
C34_Witness ==
    /\ last.op = "emergencyWithdraw" /\ last.ok
    /\ last.ret.amount0 > 0 /\ last.ret.amount2 > 0
    /\ wbtc[Other] = 0 /\ usdc[Other] = 0 /\ eth[Other] = 0

\* --------------------------------------------------- the price service (JS)
\* A fourth specification: a PriceService, with or without an RPC provider,
\* asked for the current price while its three sources answer in every way.
Null == [kind |-> "null", v |-> 0]

\* the truth value of a number or null in a condition
Truthy(x) ==
    x.kind \notin {"null", "NaN"} /\ ~(x.kind = "finite" /\ x.v = 0)

\* a source yields a price: priceData?.wbtc
Yields(priceData) == ~priceData.null /\ Truthy(priceData.wbtc)

\* What getPriceFromCoinGecko, getPriceFromChainlink and getPriceFromCoinCap
\* return for the responses of their sources, in the order in which
\* getCurrentPrice tries them; Chainlink is asked only with a provider.
priceSources(provider, responses) ==
    LET NoData(source) == [null |-> TRUE, wbtc |-> Null, source |-> source]
        Data(source, price) == [null |-> FALSE, wbtc |-> price, source |-> source]
        coingecko ==
            IF responses.coingecko.error THEN NoData("coingecko")
            ELSE Data("coingecko", IF Truthy(responses.coingecko.usd)
                                   THEN responses.coingecko.usd ELSE Null)
        quote == getPriceFromChainlink(responses.chainlink)
        chainlink ==
            IF ~quote.ok THEN NoData("chainlink")
            ELSE Data("chainlink",
                      Num(SDiv(quote.price, (10 ^ quote.decimals) \div Scale)))
        coincap ==
            IF responses.coincap.error THEN NoData("coincap")
            ELSE Data("coincap", responses.coincap.priceUsd)
    IN  IF provider THEN <<coingecko, chainlink, coincap>>
        ELSE <<coingecko, coincap>>

ErrAllSources == "Failed to fetch price from all sources"

\* a getCurrentPrice that prefers the last source to the first
getCurrentPriceLastSource(provider, responses) ==
    LET sources == priceSources(provider, responses)
        yielding == {i \in DOMAIN sources : Yields(sources[i])}
    IN  IF yielding = {}
        THEN [ok |-> FALSE, err |-> ErrAllSources, ret |-> Null,
              attempts |-> sources]
        ELSE LET i == CHOOSE k \in yielding : \A j \in yielding : j <= k
             IN  [ok |-> TRUE, err |-> "", ret |-> sources[i],
                  attempts |-> sources]

\* getCurrentPrice(): the data of the first source that yields a price, with
\* what each source tried has returned; an Error when none does
getCurrentPrice(provider, responses) ==
    LET sources == priceSources(provider, responses)
        yielding == {i \in DOMAIN sources : Yields(sources[i])}
    IN  IF yielding = {}
        THEN [ok |-> FALSE, err |-> ErrAllSources, ret |-> Null,
              attempts |-> sources]
        ELSE LET i == CHOOSE k \in yielding : \A j \in yielding : k <= j
             IN  [ok |-> TRUE, err |-> "", ret |-> sources[i],
                  attempts |-> SubSeq(sources, 1, i)]

\* the responses of the three sources: a failed request or a value
PriceResponses ==
    {[coingecko |-> g, chainlink |-> q, coincap |-> c] :
        g \in {[error |-> TRUE, usd |-> Null]}
              \cup {[error |-> FALSE, usd |-> u] :
                        u \in {Null, Whole(0), Whole(100), Whole(-1)}},
        q \in {[QuietEnv EXCEPT !.answer = a, !.age = g] :
                  a \in {-100000000, 0, 1000000000},
                  g \in {0, ChainlinkMaxAge + 1}},
        c \in {[error |-> TRUE, priceUsd |-> NaN]}
              \cup {[error |-> FALSE, priceUsd |-> u] :
                        u \in {NaN, Whole(0), Whole(101), Whole(-1),
                               PosInfinity}}}

PriceInit ==
    /\ currentTokenId = 0
    /\ rangePercent = 15
    /\ entered = FALSE
    /\ wbtc = [a \in Accounts |-> IF a = Owner THEN MaxAmount ELSE 0]
    /\ usdc = [a \in Accounts |-> IF a = Owner THEN MaxAmount ELSE 0]
    /\ eth = [a \in Accounts |-> IF a = Owner THEN MaxEth ELSE 0]
    /\ positions = [i \in 1..MaxTokenId |-> NoPosition]
    /\ nextTokenId = 1
    /\ last = NoTx
    /\ prev = "other"
    /\ service \in {[provider |-> p] : p \in BOOLEAN}

GetCurrentPrice ==
    \E responses \in PriceResponses :
        \E r \in {getCurrentPrice(service.provider, responses)} :
            /\ last' = [op |-> "getCurrentPrice", caller |-> Other,
                        arg |-> responses, ok |-> r.ok, err |-> r.err,
                        ret |-> r.ret, attempts |-> r.attempts]
            /\ prev' = "other"
            /\ UNCHANGED <<chain, service>>

PriceSpec == PriceInit /\ [][GetCurrentPrice]_vars

\* C35: getCurrentPrice tries CoinGecko, then Chainlink when a provider is
\* configured (and only then), then CoinCap; it stops at the first source
\* that yields a price and returns that source's data; it throws "Failed to
\* fetch price from all sources" only when each of them was tried and none
\* yielded a price.
C35_FirstSourceInOrder ==
    last.op = "getCurrentPrice"
    => LET order == IF service.provider
                    THEN <<"coingecko", "chainlink", "coincap">>
                    ELSE <<"coingecko", "coincap">>
           n == Len(last.attempts)
       IN  /\ n >= 1 /\ n <= Len(order)
           /\ \A i \in 1..n : last.attempts[i].source = order[i]
           /\ \A i \in 1..(n - 1) : ~Yields(last.attempts[i])
           /\ IF last.ok
              THEN Yields(last.attempts[n]) /\ last.ret = last.attempts[n]
              ELSE /\ n = Len(order)
                   /\ ~Yields(last.attempts[n])
                   /\ last.err = ErrAllSources

\* with a provider, CoinGecko has failed, Chainlink has yielded the price
\* that is returned, and CoinCap, which had a price too, was not asked
C35_Witness ==
    /\ last.op = "getCurrentPrice" /\ last.ok
    /\ service.provider
    /\ last.arg.coingecko.error
    /\ last.ret.source = "chainlink"
    /\ Len(last.attempts) = 2
    /\ ~last.arg.coincap.error /\ Truthy(last.arg.coincap.priceUsd)

\* C36: every price that getCurrentPrice returns is a finite number
\* greater than zero, whatever its sources return.
C36_ReturnedPricePositive ==
    (last.op = "getCurrentPrice" /\ last.ok)
    => (last.ret.wbtc.kind = "finite" /\ last.ret.wbtc.v > 0)

\* ------------------------------------------------- the history buffers (JS)
\* A fifth specification: a PositionService recording one snapshot after the
\* other and an AnalyticsService recording one daily snapshot after the
\* other.  A snapshot carries the number of its recording as its time.
PositionHistoryLimit == 1000     \* if (this.positionHistory.length > 1000)
DailySnapshotsLimit == 90        \* if (...dailySnapshots.length > 90)
MaxPositionSnapshots == 1002     \* snapshots recorded in a run
MaxDailySnapshots == 92          \* daily snapshots recorded in a run

\* a recordDailySnapshot that never discards
recordDailySnapshotNoShift(dailySnapshots, snapshot) ==
    Append(dailySnapshots, snapshot)

\* recordPositionSnapshot(status): push, then shift when over the limit
recordPositionSnapshot(positionHistory, status) ==
    LET pushed == Append(positionHistory,
                         [timestamp |-> status.timestamp,
                          price |-> status.price,
                          inRange |-> status.inRange,
                          alertLevel |-> status.alertLevel])
    IN  IF Len(pushed) > PositionHistoryLimit THEN Tail(pushed) ELSE pushed

\* recordDailySnapshot(...): push, then shift when over the limit
recordDailySnapshot(dailySnapshots, snapshot) ==
    LET pushed == Append(dailySnapshots, snapshot)
    IN  IF Len(pushed) > DailySnapshotsLimit THEN Tail(pushed) ELSE pushed

HistoryInit ==
    /\ currentTokenId = 0
    /\ rangePercent = 15
    /\ entered = FALSE
    /\ wbtc = [a \in Accounts |-> IF a = Owner THEN MaxAmount ELSE 0]
    /\ usdc = [a \in Accounts |-> IF a = Owner THEN MaxAmount ELSE 0]
    /\ eth = [a \in Accounts |-> IF a = Owner THEN MaxEth ELSE 0]
    /\ positions = [i \in 1..MaxTokenId |-> NoPosition]
    /\ nextTokenId = 1
    /\ last = NoTx
    /\ prev = "other"
    /\ service = [positionHistory |-> <<>>, dailySnapshots |-> <<>>,
                  recorded |-> 0, days |-> 0]

RecordPositionSnapshot ==
    /\ service.recorded < MaxPositionSnapshots
    /\ service' = [service EXCEPT
           !.recorded = @ + 1,
           !.positionHistory = recordPositionSnapshot(@,
               [timestamp |-> service.recorded + 1, price |-> Whole(100),
                inRange |-> TRUE, alertLevel |-> "normal"])]
    /\ UNCHANGED <<chain, last, prev>>

RecordDailySnapshot ==
    /\ service.days < MaxDailySnapshots
    /\ service' = [service EXCEPT
           !.days = @ + 1,
           !.dailySnapshots = recordDailySnapshot(@,
               [date |-> service.days + 1, inRangePercent |-> Whole(100)])]
    /\ UNCHANGED <<chain, last, prev>>

HistorySpec ==
    HistoryInit /\ [][RecordPositionSnapshot \/ RecordDailySnapshot]_vars

\* C37: positionHistory never holds more than 1000 snapshots and
\* dailySnapshots never more than 90; each holds the latest recordings, in
\* the order of their recording: beyond the bound the oldest is gone.
C37_BuffersBounded ==
    /\ Len(service.positionHistory) = Min(service.recorded, 1000)
    /\ Len(service.dailySnapshots) = Min(service.days, 90)
    /\ \A i \in DOMAIN service.positionHistory :
           service.positionHistory[i].timestamp
               = service.recorded - Len(service.positionHistory) + i
    /\ \A i \in DOMAIN service.dailySnapshots :
           service.dailySnapshots[i].date
               = service.days - Len(service.dailySnapshots) + i

\* both bounds have been exceeded: the first snapshot and the first daily
\* snapshot are gone
C37_Witness ==
    /\ service.recorded = 1001 /\ service.days = 91
    /\ Len(service.positionHistory) = 1000
    /\ service.positionHistory[1].timestamp = 2
    /\ Len(service.dailySnapshots) = 90
    /\ service.dailySnapshots[1].date = 2

\* -------------------------------------------------- the monitoring loop (JS)
\* A sixth specification: the LPMonitor application started once, the
\* PositionService checking the position at start and at every firing of the
\* interval timer, and the application stopped.  A check is asynchronous: it
\* starts, waits for the price, and completes later, so the timer and stop()
\* run while checks are in flight.
MaxChecks == 4                   \* checks started in a run

\* the price request of a check fails
Failure == [kind |-> "failure", v |-> 0]

\* a monitor that records a snapshot of a failed check too
monitorRecordsFailure(svc, outcome) ==
    LET status == getPositionStatus(svc, Whole(0))
    IN  [svc EXCEPT
            !.positionHistory = recordPositionSnapshot(@,
                [timestamp |-> Len(svc.delivered) + 1,
                 price |-> status.price, inRange |-> status.range.inRange,
                 alertLevel |-> status.alertLevel]),
            !.delivered = Append(@, [error |-> IF outcome = Failure
                                               THEN ErrAllSources ELSE "",
                                     data |-> <<>>])]

\* the rest of monitor() once the price request has ended with `outcome`:
\* on success the snapshot is recorded and callback(null, data) delivered,
\* on failure callback(error, null) delivered
monitor(svc, outcome) ==
    IF outcome = Failure
    THEN [svc EXCEPT !.delivered =
              Append(@, [error |-> ErrAllSources, data |-> <<>>])]
    ELSE LET status == getPositionStatus(svc, outcome)
         IN  [svc EXCEPT
                 !.positionHistory = recordPositionSnapshot(@,
                     [timestamp |-> Len(svc.delivered) + 1,
                      price |-> status.price,
                      inRange |-> status.range.inRange,
                      alertLevel |-> status.alertLevel]),
                 !.delivered = Append(@, [error |-> "",
                                          data |-> <<status>>])]

MonitorInit ==
    /\ currentTokenId = 0
    /\ rangePercent = 15
    /\ entered = FALSE
    /\ wbtc = [a \in Accounts |-> IF a = Owner THEN MaxAmount ELSE 0]
    /\ usdc = [a \in Accounts |-> IF a = Owner THEN MaxAmount ELSE 0]
    /\ eth = [a \in Accounts |-> IF a = Owner THEN MaxEth ELSE 0]
    /\ positions = [i \in 1..MaxTokenId |-> NoPosition]
    /\ nextTokenId = 1
    /\ last = NoTx
    /\ prev = "other"
    /\ service \in
         {[config |-> c, initialPrice |-> Whole(100),
           positionHistory |-> <<>>, delivered |-> <<>>,
           running |-> FALSE, stopMonitoring |-> "null",
           starting |-> FALSE, interval |-> "none",
           checks |-> 0, inFlight |-> 0] :
             c \in {k \in Configs : /\ k.rangePercent = 15
                                    /\ k.feeTier = 3000
                                    /\ k.targetAnnualFees = Num(15600)}}

\* LPMonitor.start(): running is set and startMonitoring begins its initial
\* check.  The application is started once.
Start ==
    /\ ~service.running
    /\ service.interval = "none" /\ ~service.starting
    /\ service.checks < MaxChecks
    /\ service' = [service EXCEPT !.running = TRUE, !.starting = TRUE,
                                  !.checks = @ + 1]
    /\ UNCHANGED <<chain, last, prev>>

\* the initial check ends; startMonitoring sets the interval and returns the
\* cleanup function, which start() stores
InitialCheckCompletes ==
    /\ service.starting
    /\ \E outcome \in Prices \cup {Failure} :
           service' = [monitor(service, outcome) EXCEPT
                          !.starting = FALSE, !.interval = "set",
                          !.stopMonitoring = "cleanup"]
    /\ UNCHANGED <<chain, last, prev>>

\* setInterval(monitor, checkInterval): the timer starts another check
TimerFires ==
    /\ service.interval = "set"
    /\ service.checks < MaxChecks
    /\ service' = [service EXCEPT !.checks = @ + 1, !.inFlight = @ + 1]
    /\ UNCHANGED <<chain, last, prev>>

\* a check started by the timer ends
CheckCompletes ==
    /\ service.inFlight > 0
    /\ \E outcome \in Prices \cup {Failure} :
           service' = [monitor(service, outcome) EXCEPT !.inFlight = @ - 1]
    /\ UNCHANGED <<chain, last, prev>>

\* LPMonitor.stop(): the cleanup function, when there is one, clears the
\* interval
Stop ==
    /\ service.running
    /\ service' = [service EXCEPT
           !.interval = IF service.stopMonitoring = "cleanup"
                        THEN "cleared" ELSE @,
           !.running = FALSE]
    /\ UNCHANGED <<chain, last, prev>>

MonitorSpec ==
    MonitorInit /\ [][\/ Start
                      \/ InitialCheckCompletes
                      \/ TimerFires
                      \/ CheckCompletes
                      \/ Stop]_vars

\* C38: once the cleanup function returned by startMonitoring has been
\* called, no further check is started, no further snapshot is recorded and
\* no further callback is delivered.
C38_NothingAfterCleanup ==
    [][service.interval = "cleared" =>
          /\ service'.checks = service.checks
          /\ service'.positionHistory = service.positionHistory
          /\ service'.delivered = service.delivered]_vars

\* C39: a failed check is delivered to the callback as an error with no
\* data, records no snapshot and leaves the monitoring going: the interval
\* set by startMonitoring is set after a failed initial check and is left as
\* it was by a failed later check.
C39_FailedCheckReported ==
    [][(/\ Len(service'.delivered) = Len(service.delivered) + 1
        /\ service'.delivered[Len(service'.delivered)].error # "") =>
          /\ service'.delivered[Len(service'.delivered)].data = <<>>
          /\ service'.positionHistory = service.positionHistory
          /\ service'.running = service.running
          /\ service'.interval = IF service.starting THEN "set"
                                 ELSE service.interval]_vars

\* the initial check failed and the check the timer started next succeeded
C39_Witness ==
    /\ Len(service.delivered) = 2
    /\ service.delivered[1].error = ErrAllSources
    /\ service.delivered[2].error = ""
    /\ service.checks = 2 /\ service.inFlight = 0
    /\ service.interval = "set"
    /\ Len(service.positionHistory) = 1

====
